---- MODULE Spec2Model ----
(***************************************************************************)
(* Model of the configuration resolver of npm-audit-excel                  *)
(* (src/config/configManager.ts, src/config/reportConfig.ts,               *)
(* src/types/validation.ts), of the vulnerability processor the command    *)
(* line runs on the resolved configuration, of the worksheet the report    *)
(* generator builds (src/core/ExcelReportGenerator.ts) and of one run of   *)
(* the command line (src/cli.ts).                                          *)
(*                                                                         *)
(* A JavaScript object is a function whose domain is its set of own keys;  *)
(* an absent key is a key outside the domain.  CVSS values, which the      *)
(* source writes with one decimal (9.0, 7.0), are kept in tenths (90, 70). *)
(***************************************************************************)
EXTENDS Integers, Sequences, FiniteSets, TLC

VARIABLES
    config,     \* ConfigManager.config, the singleton's current configuration
    fs,         \* the content of the configuration file on disk
    pending,    \* loadConfig calls suspended at the file read
    ret,        \* what the most recent completed call returned or threw
    nops,       \* number of calls made on the singleton so far
    entry,      \* the raw audit entry handed to the vulnerability processor
    processed,  \* the record the processor produced for it
    builtin,    \* what the exported object DEFAULT_CONFIG holds
    cli,        \* the options and the inputs of a run of the command line
    report,     \* the worksheet written to the output file
    exit        \* whether the process has exited, and with which code

vars == <<config, fs, pending, ret, nops, entry, processed, builtin, cli, report, exit>>

(***************************************************************************)
(* Bounds of the model.                                                    *)
(***************************************************************************)
MaxOps == 3
MaxPending == 2

(***************************************************************************)
(* Object helpers: {} , {...a, ...b} , o.k (undefined spreads as {}).      *)
(***************************************************************************)
EmptyObject == <<>>

hasProperty(obj, property) == property \in DOMAIN obj

Spread(a, b) == [k \in (DOMAIN a) \cup (DOMAIN b) |-> IF k \in DOMAIN b THEN b[k] ELSE a[k]]

Sub(obj, k) == IF k \in DOMAIN obj THEN obj[k] ELSE EmptyObject

\* {...base, ...over, g1: {...base.g1, ...over.g1}, ...} for the groups gs
MergeSection(base, over, gs) ==
    LET flat == Spread(base, over)
    IN  [k \in (DOMAIN flat) \cup gs |->
            IF k \in gs THEN Spread(Sub(base, k), Sub(over, k)) ELSE flat[k]]

(***************************************************************************)
(* src/config/constants.ts, as DEFAULT_CONFIG lays the values out           *)
(***************************************************************************)
ColumnNames ==
    {"priority", "score", "package", "severity", "cvss", "dependencyType",
     "fixAvailable", "fixVersion", "majorChange", "vulnerability", "cwe",
     "affectedPackages", "vulnerableRange", "fixCommand", "advisoryUrl", "notes"}

DefaultWidths ==
    [priority |-> 12, score |-> 8, package |-> 35, severity |-> 12, cvss |-> 8,
     dependencyType |-> 15, fixAvailable |-> 15, fixVersion |-> 20,
     majorChange |-> 14, vulnerability |-> 50, cwe |-> 15,
     affectedPackages |-> 18, vulnerableRange |-> 25, fixCommand |-> 45,
     advisoryUrl |-> 40, notes |-> 25]

DefaultColors ==
    [priority   |-> [urgent |-> "FF8B0000", high |-> "FFFF4500",
                     medium |-> "FFFFD700", low |-> "FF98FB98"],
     severity   |-> [critical |-> "FFFF0000", high |-> "FFFFA500",
                     moderate |-> "FFFFFF00", low |-> "FF90EE90"],
     text       |-> [white |-> "FFFFFFFF", black |-> "FF000000"],
     background |-> [header |-> "FF1F4788", alternatingRow |-> "FFF2F2F2"],
     cvss       |-> [highRisk |-> "FFFF0000", mediumRisk |-> "FFFF4500"],
     fix        |-> [available |-> "FF008000", notAvailable |-> "FFFF0000"],
     border     |-> "FFD3D3D3"]

DefaultLayout ==
    [rowHeights  |-> [title |-> 30, header |-> 25],
     fontSizes   |-> [title |-> 16, summary |-> 12],
     textLimits  |-> [vulnerabilityTitle |-> 80],
     freezePanes |-> [row |-> 5, col |-> 0],
     enableAutoFilter |-> TRUE,
     enableAlternatingRows |-> TRUE]

(***************************************************************************)
(* src/config/reportConfig.ts                                              *)
(***************************************************************************)
DefaultOrder ==
    <<"priority", "score", "package", "severity", "cvss", "dependencyType",
      "fixAvailable", "fixVersion", "majorChange", "vulnerability", "cwe",
      "affectedPackages", "vulnerableRange", "fixCommand", "advisoryUrl", "notes">>

\* a default scoring whose bonus for an available fix is 5
DefaultScoring_SmallFixBonus ==
    [severityWeights |-> [critical |-> 40, high |-> 30,
                          moderate |-> 20, low |-> 10, info |-> 5],
     bonusPoints |-> [directDependency |-> 15, fixAvailable |-> 5,
                      highCvss |-> 10, mediumCvss |-> 5],
     penalties   |-> [majorVersion |-> 5, effectsPerPackage |-> 2,
                      maxEffectsPenalty |-> 10],
     thresholds  |-> [highCvss |-> 90, mediumCvss |-> 70,
                      urgentPriority |-> 50, highPriority |-> 35,
                      mediumPriority |-> 20]]

\* a default scoring whose priority thresholds are 51/36/21
DefaultScoring_ShiftedThresholds ==
    [severityWeights |-> [critical |-> 40, high |-> 30,
                          moderate |-> 20, low |-> 10, info |-> 5],
     bonusPoints |-> [directDependency |-> 15, fixAvailable |-> 10,
                      highCvss |-> 10, mediumCvss |-> 5],
     penalties   |-> [majorVersion |-> 5, effectsPerPackage |-> 2,
                      maxEffectsPenalty |-> 10],
     thresholds  |-> [highCvss |-> 90, mediumCvss |-> 70,
                      urgentPriority |-> 51, highPriority |-> 36,
                      mediumPriority |-> 21]]

\* DEFAULT_CONFIG.scoring
DefaultScoring ==
    [severityWeights |-> [critical |-> 40, high |-> 30,
                          moderate |-> 20, low |-> 10, info |-> 5],
     bonusPoints |-> [directDependency |-> 15, fixAvailable |-> 10,
                      highCvss |-> 10, mediumCvss |-> 5],
     penalties   |-> [majorVersion |-> 5, effectsPerPackage |-> 2,
                      maxEffectsPenalty |-> 10],
     thresholds  |-> [highCvss |-> 90, mediumCvss |-> 70,
                      urgentPriority |-> 50, highPriority |-> 35,
                      mediumPriority |-> 20]]

DEFAULT_CONFIG ==
    [columns |-> [visible |-> [c \in ColumnNames |-> TRUE],
                  order   |-> DefaultOrder,
                  widths  |-> DefaultWidths],
     colors  |-> DefaultColors,
     layout  |-> DefaultLayout,
     scoring |-> DefaultScoring,
     output  |-> [includeTitle |-> TRUE, includeSummary |-> TRUE,
                  includeTimestamp |-> TRUE, dateFormat |-> "toLocaleString",
                  worksheetName |-> "Security Report"]]

VisibleOnly(shown) == [c \in ColumnNames |-> c \in shown]

PRESET_CONFIGS ==
    [minimal |->
        [columns |->
            [visible |-> VisibleOnly({"priority", "package", "severity",
                                      "fixAvailable", "fixCommand"}),
             order   |-> <<"priority", "package", "severity", "fixAvailable",
                           "fixCommand">>,
             widths  |-> DefaultWidths]],
     developer |->
        [columns |->
            [visible |-> VisibleOnly({"priority", "score", "package", "severity",
                                      "cvss", "dependencyType", "fixAvailable",
                                      "fixVersion", "fixCommand", "vulnerability"}),
             order   |-> <<"priority", "package", "severity", "dependencyType",
                           "fixAvailable", "fixCommand", "score", "cvss",
                           "fixVersion", "vulnerability">>,
             widths  |-> DefaultWidths]],
     security |->
        [columns |->
            [visible |-> VisibleOnly({"priority", "score", "package", "severity",
                                      "cvss", "vulnerability", "cwe", "advisoryUrl",
                                      "dependencyType", "fixAvailable", "notes"}),
             order   |-> <<"priority", "severity", "cvss", "package",
                           "vulnerability", "cwe", "dependencyType",
                           "fixAvailable", "advisoryUrl", "score", "notes">>,
             widths  |-> DefaultWidths]],
     highContrast |->
        [colors |->
            [priority   |-> [urgent |-> "FF000000", high |-> "FF800000",
                             medium |-> "FF808000", low |-> "FF008000"],
             severity   |-> [critical |-> "FF000000", high |-> "FF800000",
                             moderate |-> "FF808000", low |-> "FF008000"],
             text       |-> [white |-> "FFFFFFFF", black |-> "FF000000"],
             background |-> [header |-> "FF000080", alternatingRow |-> "FFE0E0E0"],
             cvss       |-> [highRisk |-> "FF000000", mediumRisk |-> "FF800000"],
             fix        |-> [available |-> "FF008000", notAvailable |-> "FF800000"],
             border     |-> "FF000000"]]]

PresetNames == DOMAIN PRESET_CONFIGS

\* the nested records that each merge function merges key by key
MergeConfigGroups ==
    [columns |-> {"visible", "widths"},
     colors  |-> {"priority", "severity", "text", "background", "cvss", "fix"},
     layout  |-> {"rowHeights", "fontSizes", "textLimits", "freezePanes"},
     scoring |-> {"severityWeights", "bonusPoints", "penalties", "thresholds"},
     output  |-> {}]

\* a merge that replaces every nested record wholesale
DeepMergeGroups_Shallow == [s \in {"columns", "colors", "layout", "scoring", "output"} |-> {}]

DeepMergeGroups ==
    [columns |-> {"visible", "widths", "customHeaders"},
     colors  |-> {"priority", "severity", "text", "background", "cvss", "fix"},
     layout  |-> {"rowHeights", "fontSizes", "textLimits", "freezePanes"},
     scoring |-> {"severityWeights", "bonusPoints", "penalties", "thresholds"},
     output  |-> {}]

Sections == DOMAIN DEFAULT_CONFIG

\* a merge that forgets to spread DEFAULT_CONFIG
mergeConfig_NoDefaults(userConfig) ==
    [s \in DOMAIN DEFAULT_CONFIG |->
        MergeSection(EmptyObject, Sub(userConfig, s), MergeConfigGroups[s])]

\* mergeConfig(userConfig): every section rebuilt from DEFAULT_CONFIG
mergeConfig(userConfig) ==
    [s \in Sections |->
        MergeSection(DEFAULT_CONFIG[s], Sub(userConfig, s), MergeConfigGroups[s])]

\* a merge whose spreads are in the wrong order: base wins over partial
deepMergeConfig_BaseWins(base, partial) ==
    [s \in DOMAIN base |->
        IF s \in DOMAIN DEFAULT_CONFIG /\ hasProperty(partial, s)
        THEN MergeSection(partial[s], base[s], DeepMergeGroups[s])
        ELSE base[s]]

\* ConfigManager.deepMergeConfig(base, partial): { ...base } and then every
\* section that partial carries is rebuilt from the section of base
deepMergeConfig(base, partial) ==
    [s \in DOMAIN base |->
        IF s \in Sections /\ hasProperty(partial, s)
        THEN MergeSection(base[s], partial[s], DeepMergeGroups[s])
        ELSE base[s]]

(***************************************************************************)
(* src/types/validation.ts                                                 *)
(***************************************************************************)
createValidationError(path, message) == [path |-> path, message |-> message]

createValidationResult(isValid, errors) == [isValid |-> isValid, errors |-> errors]

isColumnName(value) == value \in ColumnNames

HexDigits ==
    {"0", "1", "2", "3", "4", "5", "6", "7", "8", "9",
     "A", "B", "C", "D", "E", "F", "a", "b", "c", "d", "e", "f"}

\* /^([A-Fa-f0-9]{6}|[A-Fa-f0-9]{8})$/.test(s)
hexRegexTest(s) ==
    /\ Len(s) \in {6, 8}
    /\ \A i \in 1..Len(s) : SubSeq(s, i, i) \in HexDigits

\* color.replace(/^#/, '')
StripHash(s) ==
    IF Len(s) >= 1 /\ SubSeq(s, 1, 1) = "#" THEN SubSeq(s, 2, Len(s)) ELSE s

isValidHexColor(color) == hexRegexTest(color) \/ hexRegexTest(StripHash(color))

\* a JSON value as the file holds it: kind is "object", "array" or "null"
\* (standing for any falsy value); data is the object when kind is "object"
isObject(value) == value.kind = "object"

JsonObject(data) == [kind |-> "object", data |-> data]

\* a non-empty string is truthy
Truthy(str) == str /= ""

\* the groups whose keys isValidColorConfig walks
ValidatedColorKeys ==
    [priority |-> {"urgent", "high", "medium", "low"},
     severity |-> {"critical", "high", "moderate", "low"}]

ColorGroupErrors(cfg, group) ==
    IF hasProperty(cfg, group)
    THEN { createValidationError("colors." \o group \o "." \o colorKey, "Invalid hex color") :
             colorKey \in { k \in ValidatedColorKeys[group] :
                              /\ hasProperty(cfg[group], k)
                              /\ Truthy(cfg[group][k])
                              /\ ~isValidHexColor(cfg[group][k]) } }
    ELSE {}

isValidColorConfig(cfg) ==
    LET errors == UNION { ColorGroupErrors(cfg, g) : g \in DOMAIN ValidatedColorKeys }
    IN  createValidationResult(errors = {}, errors)

isValidColumnConfig(cfg) ==
    LET visible == Sub(cfg, "visible")
        order   == IF hasProperty(cfg, "order") THEN cfg.order ELSE <<>>
        widths  == Sub(cfg, "widths")
        errors  ==
            { createValidationError("columns.visible." \o key, "Invalid column name") :
                key \in { k \in DOMAIN visible : ~isColumnName(k) } }
            \cup
            { createValidationError("columns.visible." \o key, "Column visibility must be boolean") :
                key \in { k \in DOMAIN visible : visible[k] \notin BOOLEAN } }
            \cup
            { createValidationError("columns.order[" \o ToString(i - 1) \o "]", "Invalid column name") :
                i \in { j \in 1..Len(order) : ~isColumnName(order[j]) } }
            \cup
            { createValidationError("columns.widths." \o key, "Invalid column name") :
                key \in { k \in DOMAIN widths : ~isColumnName(k) } }
            \cup
            { createValidationError("columns.widths." \o key, "Column width must be positive number") :
                key \in { k \in DOMAIN widths : widths[k] <= 0 } }
    IN  createValidationResult(errors = {}, errors)

(***************************************************************************)
(* src/config/configManager.ts                                             *)
(***************************************************************************)
validSeverities == {"critical", "high", "moderate", "low", "info"}

cvssThresholds == {"highCvss", "mediumCvss"}

\* the CVSS range 0..10 of the source, in tenths
CvssInRange(value) == value >= 0 /\ value <= 100

\* a validation of the severity weights alone
validateScoring_WeightsOnly(scoring) ==
    LET severityWeights == Sub(scoring, "severityWeights")
        errors ==
            { createValidationError("scoring.severityWeights." \o severity, "Invalid severity level") :
                severity \in { k \in DOMAIN severityWeights : k \notin validSeverities } }
            \cup
            { createValidationError("scoring.severityWeights." \o severity,
                                    "Severity weight must be a non-negative number") :
                severity \in { k \in DOMAIN severityWeights : severityWeights[k] < 0 } }
    IN  createValidationResult(errors = {}, errors)

validateScoring(scoring) ==
    LET severityWeights == Sub(scoring, "severityWeights")
        thresholds      == Sub(scoring, "thresholds")
        errors ==
            { createValidationError("scoring.severityWeights." \o severity, "Invalid severity level") :
                severity \in { k \in DOMAIN severityWeights : k \notin validSeverities } }
            \cup
            { createValidationError("scoring.severityWeights." \o severity,
                                    "Severity weight must be a non-negative number") :
                severity \in { k \in DOMAIN severityWeights : severityWeights[k] < 0 } }
            \cup
            { createValidationError("scoring.thresholds." \o thresholdKey,
                                    "CVSS threshold must be between 0 and 10") :
                thresholdKey \in { k \in cvssThresholds :
                                     /\ hasProperty(thresholds, k)
                                     /\ ~CvssInRange(thresholds[k]) } }
    IN  createValidationResult(errors = {}, errors)

\* the errors array validateConfig collects for an object
ValidationErrors(cfg) ==
    (IF hasProperty(cfg, "colors") THEN isValidColorConfig(cfg.colors).errors ELSE {})
    \cup (IF hasProperty(cfg, "columns") THEN isValidColumnConfig(cfg.columns).errors ELSE {})
    \cup (IF hasProperty(cfg, "scoring") THEN validateScoring(cfg.scoring).errors ELSE {})

\* a validation that collects the errors and does not throw
validateConfig_WarnOnly(value) ==
    IF ~isObject(value) THEN "INVALID_CONFIG_TYPE" ELSE ""

\* validateConfig(config): the code of the error it throws, "" when it returns
validateConfig(value) ==
    IF ~isObject(value) THEN "INVALID_CONFIG_TYPE"
    ELSE IF ValidationErrors(value.data) /= {} THEN "VALIDATION_FAILED"
    ELSE ""

\* ConfigManager.loadConfigFromFile(configPath), on the file content read:
\* what it throws (threw, code) or the parsed, validated object it returns
loadConfigFromFile(content) ==
    LET Throw(code) == [threw |-> TRUE, code |-> code, data |-> EmptyObject]
    IN  CASE content.kind = "missing"    -> Throw("FILE_NOT_FOUND")
          [] content.kind = "unreadable" -> Throw("EACCES")
          [] content.kind = "garbage"    -> Throw("INVALID_JSON")
          [] content.kind = "null"       -> Throw("INVALID_JSON")
          [] OTHER ->
                IF validateConfig(content) /= ""
                THEN Throw(validateConfig(content))
                ELSE [threw |-> FALSE, code |-> "", data |-> content.data]

\* a loadConfig that starts from the singleton's current configuration
LoadBase_Current(cur) == cur

\* loadConfig, line 157: let config = DEFAULT_CONFIG
LoadBase(cur) == DEFAULT_CONFIG

\* loadConfig, lines 160-163: the preset step
PresetLayer(local, preset) ==
    IF Truthy(preset) /\ hasProperty(PRESET_CONFIGS, preset)
    THEN mergeConfig(PRESET_CONFIGS[preset])
    ELSE local

\* a file step whose catch block falls back to the default
FileLayer_ResetOnError(local, fileResult) ==
    IF fileResult.threw THEN DEFAULT_CONFIG ELSE deepMergeConfig(local, fileResult.data)

\* loadConfig, lines 166-173: the file step, given what loadConfigFromFile did
FileLayer(local, fileResult) ==
    IF fileResult.threw THEN local ELSE deepMergeConfig(local, fileResult.data)

\* an inline step gated on validation
InlineLayer_Validated(local, options) ==
    IF options.hasInline /\ validateConfig(JsonObject(options.inlineConfig)) = ""
    THEN deepMergeConfig(local, options.inlineConfig)
    ELSE local

\* loadConfig, lines 176-178: the inline step
InlineLayer(local, options) ==
    IF options.hasInline THEN deepMergeConfig(local, options.inlineConfig) ELSE local

NoContent == [kind |-> "none", data |-> EmptyObject]

Options(preset, configFile, hasInline, inlineConfig) ==
    [preset |-> preset, configFile |-> configFile, hasInline |-> hasInline,
     inlineConfig |-> inlineConfig]

NoOptions ==
    [preset |-> "", configFile |-> "", hasInline |-> FALSE, inlineConfig |-> EmptyObject]

\* the record of a completed call
\* the record of a completed call: its arguments, the file content it read,
\* what it threw, the code of the error it logged as a warning, the
\* configuration the singleton held when it completed, and what it returned
Returned(op, options, content, warned, before, value) ==
    [op |-> op, options |-> options, content |-> content, threw |-> FALSE,
     code |-> "", message |-> "", warned |-> warned, before |-> before,
     value |-> value]

Thrown(op, options, code, message, before) ==
    [op |-> op, options |-> options, content |-> NoContent, threw |-> TRUE,
     code |-> code, message |-> message, warned |-> "", before |-> before,
     value |-> EmptyObject]

\* a loadConfig whose preset step falls back to the singleton's configuration
loadConfigBeforeRead_ReadsCurrent(cur, options) == PresetLayer(cur, options.preset)

\* loadConfig(options) from its start to the file read (or to its end when
\* no file is given): the local variable config
loadConfigBeforeRead(cur, options) == PresetLayer(LoadBase(cur), options.preset)

\* loadConfig(options) from the file read to its end
loadConfigAfterRead(local, options, content) ==
    InlineLayer(FileLayer(local, loadConfigFromFile(content)), options)

\* the whole of loadConfig(options) on a singleton holding cur
loadConfig(cur, options, content) ==
    IF Truthy(options.configFile)
    THEN loadConfigAfterRead(loadConfigBeforeRead(cur, options), options, content)
    ELSE InlineLayer(loadConfigBeforeRead(cur, options), options)

\* an applyPreset that resets the singleton before it throws
applyPresetConfig_ResetOnUnknown(cur, presetName) ==
    IF ~hasProperty(PRESET_CONFIGS, presetName) THEN DEFAULT_CONFIG
    ELSE mergeConfig(Spread(cur, PRESET_CONFIGS[presetName]))

\* applyPreset(presetName): the configuration it leaves in the singleton
applyPresetConfig(cur, presetName) ==
    IF ~hasProperty(PRESET_CONFIGS, presetName) THEN cur
    ELSE IF validateConfig(JsonObject(PRESET_CONFIGS[presetName])) /= "" THEN cur
    ELSE mergeConfig(Spread(cur, PRESET_CONFIGS[presetName]))

\* updateConfig(updates)
updateConfigResult(cur, updates) == mergeConfig(Spread(cur, updates))

(***************************************************************************)
(* The object DEFAULT_CONFIG.  loadConfig binds its local variable config  *)
(* to that very object (line 157) and hands it to deepMergeConfig as base  *)
(* unless the preset step has replaced it by the object mergeConfig built. *)
(***************************************************************************)
\* a deepMergeConfig that assigns the merged sections to base itself
deepMergeConfigBase_NoCopy(base, partial) == deepMergeConfig(base, partial)

\* deepMergeConfig, line 43: const result = { ...base }.  The assignments
\* result.columns = ..., result.colors = ... go to the copy, so the object
\* passed as base holds after the call what it held before
deepMergeConfigBase(base, partial) == base

\* loadConfig, lines 157-163: config is still the object DEFAULT_CONFIG
\* after the preset step
LocalIsDefault(options) ==
    ~(Truthy(options.preset) /\ hasProperty(PRESET_CONFIGS, options.preset))

\* loadConfig, lines 166-173: what DEFAULT_CONFIG holds after the file step
DefaultAfterFileLayer(default, options, fileResult) ==
    IF LocalIsDefault(options) /\ ~fileResult.threw
    THEN deepMergeConfigBase(default, fileResult.data)
    ELSE default

\* loadConfig, lines 176-178: what DEFAULT_CONFIG holds after the inline
\* step; merged tells that the file step has replaced config by its result
DefaultAfterInlineLayer(default, options, merged) ==
    IF LocalIsDefault(options) /\ ~merged /\ options.hasInline
    THEN deepMergeConfigBase(default, options.inlineConfig)
    ELSE default

(***************************************************************************)
(* Operations of the singleton.                                            *)
(***************************************************************************)
\* loadConfig without a config file runs to completion without suspending
LoadConfigNoFile(options) ==
    /\ ~Truthy(options.configFile)
    /\ LET value == loadConfig(config, options, NoContent)
       IN  /\ config' = value
           /\ ret' = Returned("loadConfig", options, NoContent, "", config, value)
    /\ builtin' = DefaultAfterInlineLayer(builtin, options, FALSE)
    /\ nops' = nops + 1
    /\ UNCHANGED <<fs, pending, entry, processed, cli, report, exit>>

\* loadConfig with a config file runs up to the file read and suspends
LoadConfigStart(options) ==
    /\ Truthy(options.configFile)
    /\ Cardinality(pending) < MaxPending
    /\ pending' = pending \cup
                    {[options |-> options, local |-> loadConfigBeforeRead(config, options)]}
    /\ nops' = nops + 1
    /\ UNCHANGED <<config, fs, ret, entry, processed, builtin, cli, report, exit>>

\* the file read completes; loadConfig runs to its end and stores the result
LoadConfigResume(call) ==
    /\ call \in pending
    /\ LET value == loadConfigAfterRead(call.local, call.options, fs)
       IN  /\ config' = value
           /\ ret' = Returned("loadConfig", call.options, fs,
                              loadConfigFromFile(fs).code, config, value)
    /\ builtin' = LET fileResult == loadConfigFromFile(fs)
                  IN  DefaultAfterInlineLayer(
                          DefaultAfterFileLayer(builtin, call.options, fileResult),
                          call.options, ~fileResult.threw)
    /\ pending' = pending \ {call}
    /\ UNCHANGED <<fs, nops, entry, processed, cli, report, exit>>

ApplyPreset(presetName) ==
    /\ config' = applyPresetConfig(config, presetName)
    /\ ret' = LET options == [NoOptions EXCEPT !.preset = presetName]
              IN  IF ~hasProperty(PRESET_CONFIGS, presetName)
                  THEN Thrown("applyPreset", options, "UNKNOWN_PRESET",
                              "Unknown preset: " \o presetName, config)
                  ELSE IF validateConfig(JsonObject(PRESET_CONFIGS[presetName])) /= ""
                  THEN Thrown("applyPreset", options, "VALIDATION_FAILED",
                              "Configuration validation failed", config)
                  ELSE Returned("applyPreset", options, NoContent, "", config, EmptyObject)
    /\ nops' = nops + 1
    /\ UNCHANGED <<fs, pending, entry, processed, builtin, cli, report, exit>>

UpdateConfig(updates) ==
    /\ config' = updateConfigResult(config, updates)
    /\ ret' = Returned("updateConfig",
                       [NoOptions EXCEPT !.hasInline = TRUE, !.inlineConfig = updates],
                       NoContent, "", config, EmptyObject)
    /\ nops' = nops + 1
    /\ UNCHANGED <<fs, pending, entry, processed, builtin, cli, report, exit>>

\* resetToDefault(): this.config = DEFAULT_CONFIG, the object as it is now
ResetToDefault ==
    /\ config' = builtin
    /\ ret' = Returned("resetToDefault", NoOptions, NoContent, "", config, EmptyObject)
    /\ nops' = nops + 1
    /\ UNCHANGED <<fs, pending, entry, processed, builtin, cli, report, exit>>

\* the keys of the PRESET_CONFIGS literal in the order it lists them
PresetKeyOrder == <<"minimal", "developer", "security", "highContrast">>

\* a list of presets written out by hand before highContrast was added
getAvailablePresets_Stale == <<"minimal", "developer", "security">>

\* getAvailablePresets(): Object.keys(PRESET_CONFIGS)
getAvailablePresets == SelectSeq(PresetKeyOrder, LAMBDA k : hasProperty(PRESET_CONFIGS, k))

GetAvailablePresets ==
    /\ ret' = Returned("getAvailablePresets", NoOptions, NoContent, "", config,
                       getAvailablePresets)
    /\ nops' = nops + 1
    /\ UNCHANGED <<config, fs, pending, entry, processed, builtin, cli, report, exit>>

\* generateSampleConfig, lines 238-243: the annotated copy of DEFAULT_CONFIG
sampleConfig ==
    Spread(("$schema" :> "./config-schema.json")
               @@ [description |-> "npm-audit-excel configuration file",
                   version |-> "1.0.0"],
           DEFAULT_CONFIG)

\* JSON.stringify(value, null, 2) as the document JSON.parse reads back: the
\* own keys of every object in insertion order, none dropped, since every
\* value of a configuration is a string, a finite number, a boolean, an
\* array or an object
JSONstringify(value) == JsonObject([k \in DOMAIN value |-> value[k]])

\* generateSampleConfig(outputPath), written to the configuration file
GenerateSampleConfig ==
    /\ fs' = JSONstringify(sampleConfig)
    /\ ret' = Returned("generateSampleConfig", NoOptions, NoContent, "", config, EmptyObject)
    /\ nops' = nops + 1
    /\ UNCHANGED <<config, pending, entry, processed, builtin, cli, report, exit>>

\* the environment replaces the configuration file
WriteFile(content) ==
    /\ fs /= content
    /\ fs' = content
    /\ UNCHANGED <<config, pending, ret, nops, entry, processed, builtin, cli, report, exit>>

(***************************************************************************)
(* Option parsing of the command line, src/cli.ts.  An option that was not *)
(* given is the empty string; a visibility record that was not built is    *)
(* undefined.                                                              *)
(***************************************************************************)
undefined == [kind |-> "undefined"]

\* the position of the first comma of s, or 0
FirstComma(s) ==
    LET commas == { i \in 1..Len(s) : SubSeq(s, i, i) = "," }
    IN  IF commas = {} THEN 0 ELSE CHOOSE i \in commas : \A j \in commas : i <= j

\* s.split(',')
RECURSIVE split(_)
split(s) ==
    IF FirstComma(s) = 0 THEN <<s>>
    ELSE <<SubSeq(s, 1, FirstComma(s) - 1)>> \o split(SubSeq(s, FirstComma(s) + 1, Len(s)))

\* c.trim(), for the blanks a list of columns may carry
RECURSIVE trim(_)
trim(c) ==
    IF Len(c) > 0 /\ SubSeq(c, 1, 1) = " " THEN trim(SubSeq(c, 2, Len(c)))
    ELSE IF Len(c) > 0 /\ SubSeq(c, Len(c), Len(c)) = " " THEN trim(SubSeq(c, 1, Len(c) - 1))
    ELSE c

\* the names a comma-separated option lists
ListedColumns(option) == { trim(split(option)[i]) : i \in 1..Len(split(option)) }

\* validateColumnName(columnName): an unknown name is warned about and ignored
validateColumnName(columnName) == isColumnName(columnName)

\* parseColumnsToShow(showColumns)
parseColumnsToShow(showColumns) ==
    LET requested == { col \in ListedColumns(showColumns) : validateColumnName(col) }
    IN  [col \in (DOMAIN DEFAULT_CONFIG.columns.visible) \cup requested |->
            col \in requested]

\* parseColumnsToHide(hideColumns, currentVisible)
parseColumnsToHide(hideColumns, currentVisible) ==
    LET visible == IF currentVisible = undefined
                   THEN DEFAULT_CONFIG.columns.visible
                   ELSE currentVisible
        hidden  == { col \in ListedColumns(hideColumns) : validateColumnName(col) }
    IN  [col \in (DOMAIN visible) \cup hidden |->
            IF col \in hidden THEN FALSE ELSE visible[col]]

\* parseColumnsToHide, line 118: the record written to is currentVisible or
\* the copy { ...DEFAULT_CONFIG.columns.visible }, so DEFAULT_CONFIG holds
\* after the call the visibility it held before
parseColumnsToHideDefault(hideColumns, currentVisible, defaultVisible) == defaultVisible

\* the visibility record parseColumnOptions builds
parsedVisible(showColumns, hideColumns) ==
    LET shown == IF Truthy(showColumns) THEN parseColumnsToShow(showColumns)
                 ELSE undefined
    IN  IF Truthy(hideColumns) THEN parseColumnsToHide(hideColumns, shown) ELSE shown

\* parseColumnOptions(showColumns, hideColumns)
parseColumnOptions(showColumns, hideColumns) ==
    IF parsedVisible(showColumns, hideColumns) = undefined THEN EmptyObject
    ELSE [columns |-> [visible |-> parsedVisible(showColumns, hideColumns),
                       order   |-> DEFAULT_CONFIG.columns.order,
                       widths  |-> DEFAULT_CONFIG.columns.widths]]

\* a --colors option: not given, the word highContrast, a text that is no
\* JSON, or the JSON object the text denotes
NoScheme == [kind |-> "none", data |-> EmptyObject]

HighContrastScheme == [kind |-> "highContrast", data |-> EmptyObject]

GarbageScheme == [kind |-> "garbage", data |-> EmptyObject]

\* parseColorOptions(colorScheme)
parseColorOptions(colorScheme) ==
    CASE colorScheme.kind = "none" -> EmptyObject
      [] colorScheme.kind = "highContrast" ->
            [colors |->
                [priority |-> [urgent |-> "FF000000", high |-> "FF800000",
                               medium |-> "FF808000", low |-> "FF008000"],
                 severity |-> [critical |-> "FF000000", high |-> "FF800000",
                               moderate |-> "FF808000", low |-> "FF008000"]]]
      [] colorScheme.kind = "garbage" -> EmptyObject
      [] OTHER ->
            IF isValidColorConfig(colorScheme.data).isValid
            THEN [colors |-> colorScheme.data]
            ELSE EmptyObject

\* main, lines 286-298: the inline configuration built from the options
inlineConfigOf(showColumns, hideColumns, colorScheme) ==
    Spread(parseColumnOptions(showColumns, hideColumns), parseColorOptions(colorScheme))

\* a call of parseColumnOptions
ParseColumnOptions(showColumns, hideColumns) ==
    /\ ret' = Returned("parseColumnOptions", NoOptions, NoContent, "", config,
                       parseColumnOptions(showColumns, hideColumns))
    /\ builtin' = IF Truthy(hideColumns)
                  THEN [builtin EXCEPT !.columns.visible =
                           parseColumnsToHideDefault(
                               hideColumns,
                               IF Truthy(showColumns) THEN parseColumnsToShow(showColumns)
                               ELSE undefined,
                               builtin.columns.visible)]
                  ELSE builtin
    /\ nops' = nops + 1
    /\ UNCHANGED <<config, fs, pending, entry, processed, cli, report, exit>>

\* a call of parseColorOptions
ParseColorOptions(colorScheme) ==
    /\ ret' = Returned("parseColorOptions", NoOptions, NoContent, "", config,
                       parseColorOptions(colorScheme))
    /\ nops' = nops + 1
    /\ UNCHANGED <<config, fs, pending, entry, processed, builtin, cli, report, exit>>

(***************************************************************************)
(* The vulnerability processor, src/core/VulnerabilityProcessor.ts, after  *)
(* the seven steps of the scorer in section 4.2 of the specification.  A   *)
(* via item is a package name or a detail object; fixAvailable is the      *)
(* boolean false or a FixInfo object.  CVSS scores are in tenths.          *)
(***************************************************************************)
ViaName(name) == [kind |-> "string", value |-> name]

ViaDetail(title, url, cwe, score) ==
    [kind |-> "object", title |-> title, url |-> url, cwe |-> cwe,
     cvss |-> [score |-> score]]

FixFalse == [kind |-> "boolean", value |-> FALSE]

FixInfo(name, version) == [kind |-> "object", name |-> name, version |-> version]

FixInfoMajor(name, version, isSemVerMajor) ==
    [kind |-> "object", name |-> name, version |-> version,
     isSemVerMajor |-> isSemVerMajor]

NO_FIX == "No fix available"

INSTALL_SPECIFIC(packageName, version) ==
    "npm install " \o packageName \o "@" \o version \o " --save"

\* cwe.join(', ')
RECURSIVE JoinCwe(_)
JoinCwe(cwe) ==
    IF Len(cwe) = 0 THEN ""
    ELSE IF Len(cwe) = 1 THEN cwe[1]
    ELSE cwe[1] \o ", " \o JoinCwe(Tail(cwe))

\* step 1: the first detail object of via, or empty strings and a score of 0
extractMetadata(via) ==
    LET details == { i \in 1..Len(via) : via[i].kind = "object" }
        first   == CHOOSE i \in details : \A j \in details : i <= j
    IN  IF details = {}
        THEN [vulnerabilityTitle |-> "", advisoryUrl |-> "", cwe |-> "", cvssScore |-> 0]
        ELSE [vulnerabilityTitle |-> via[first].title,
              advisoryUrl |-> via[first].url,
              cwe |-> JoinCwe(via[first].cwe),
              cvssScore |-> via[first].cvss.score]

\* fix fields that read isSemVerMajor before they look at the kind of value
resolveFix_MajorWithoutFix(fixAvailable) ==
    IF fixAvailable.kind = "boolean"
    THEN [fixAvailable |-> FALSE, fixVersion |-> "", fixPackage |-> "",
          isSemVerMajor |-> TRUE, fixCommand |-> NO_FIX]
    ELSE [fixAvailable |-> TRUE,
          fixVersion |-> fixAvailable.version,
          fixPackage |-> fixAvailable.name,
          isSemVerMajor |-> hasProperty(fixAvailable, "isSemVerMajor")
                              /\ fixAvailable.isSemVerMajor,
          fixCommand |-> INSTALL_SPECIFIC(fixAvailable.name, fixAvailable.version)]

\* step 2: the fix fields
resolveFix(fixAvailable) ==
    IF fixAvailable.kind = "boolean"
    THEN [fixAvailable |-> FALSE, fixVersion |-> "", fixPackage |-> "",
          isSemVerMajor |-> FALSE, fixCommand |-> NO_FIX]
    ELSE [fixAvailable |-> TRUE,
          fixVersion |-> fixAvailable.version,
          fixPackage |-> fixAvailable.name,
          isSemVerMajor |-> hasProperty(fixAvailable, "isSemVerMajor")
                              /\ fixAvailable.isSemVerMajor,
          fixCommand |-> INSTALL_SPECIFIC(fixAvailable.name, fixAvailable.version)]

\* a base score that takes the weight off instead of adding it
baseScore_Negated(scoring, severity) == 0 - scoring.severityWeights[severity]

\* step 3: the base score
baseScore(scoring, severity) == scoring.severityWeights[severity]

\* a CVSS bonus whose two parts are gated independently
cvssBonus_Both(scoring, cvssScore) ==
    (IF cvssScore >= scoring.thresholds.highCvss THEN scoring.bonusPoints.highCvss ELSE 0)
    + (IF cvssScore >= scoring.thresholds.mediumCvss THEN scoring.bonusPoints.mediumCvss ELSE 0)

\* step 4, the CVSS bonus: the high bonus, else the medium bonus
cvssBonus(scoring, cvssScore) ==
    IF cvssScore >= scoring.thresholds.highCvss THEN scoring.bonusPoints.highCvss
    ELSE IF cvssScore >= scoring.thresholds.mediumCvss THEN scoring.bonusPoints.mediumCvss
    ELSE 0

\* step 4: the bonuses
bonuses(scoring, isDirect, fixAvailable, cvssScore) ==
    (IF isDirect THEN scoring.bonusPoints.directDependency ELSE 0)
    + (IF fixAvailable THEN scoring.bonusPoints.fixAvailable ELSE 0)
    + cvssBonus(scoring, cvssScore)

\* an effects penalty without the cap
effectsPenalty_Uncapped(scoring, effectsCount) ==
    effectsCount * scoring.penalties.effectsPerPackage

\* step 5, the effects penalty: min(maxEffectsPenalty, effectsCount * effectsPerPackage)
effectsPenalty(scoring, effectsCount) ==
    LET perPackage == effectsCount * scoring.penalties.effectsPerPackage
    IN  IF scoring.penalties.maxEffectsPenalty <= perPackage
        THEN scoring.penalties.maxEffectsPenalty
        ELSE perPackage

\* step 5: the penalties
penalties(scoring, fixAvailable, isSemVerMajor, effectsCount) ==
    (IF fixAvailable /\ isSemVerMajor THEN scoring.penalties.majorVersion ELSE 0)
    + effectsPenalty(scoring, effectsCount)

\* a bucketing that tries the thresholds from the lowest one up
priorityCategory_LowestFirst(scoring, priorityScore) ==
    IF priorityScore >= scoring.thresholds.mediumPriority THEN "MEDIUM"
    ELSE IF priorityScore >= scoring.thresholds.highPriority THEN "HIGH"
    ELSE IF priorityScore >= scoring.thresholds.urgentPriority THEN "URGENT"
    ELSE "LOW"

\* step 7: the thresholds in descending order, the first match wins
priorityCategory(scoring, priorityScore) ==
    IF priorityScore >= scoring.thresholds.urgentPriority THEN "URGENT"
    ELSE IF priorityScore >= scoring.thresholds.highPriority THEN "HIGH"
    ELSE IF priorityScore >= scoring.thresholds.mediumPriority THEN "MEDIUM"
    ELSE "LOW"

\* the record the processor builds for one raw entry
processVulnerability(raw, scoring) ==
    LET meta  == extractMetadata(raw.via)
        fix   == resolveFix(raw.fixAvailable)
        count == Len(raw.effects)
        score == baseScore(scoring, raw.severity)
                 + bonuses(scoring, raw.isDirect, fix.fixAvailable, meta.cvssScore)
                 - penalties(scoring, fix.fixAvailable, fix.isSemVerMajor, count)
    IN  [package |-> raw.name,
         severity |-> raw.severity,
         isDirect |-> raw.isDirect,
         range |-> raw.range,
         fixAvailable |-> fix.fixAvailable,
         fixVersion |-> fix.fixVersion,
         fixPackage |-> fix.fixPackage,
         isSemVerMajor |-> fix.isSemVerMajor,
         effectsCount |-> count,
         viaCount |-> Len(raw.via),
         cvssScore |-> meta.cvssScore,
         vulnerabilityTitle |-> meta.vulnerabilityTitle,
         advisoryUrl |-> meta.advisoryUrl,
         cwe |-> meta.cwe,
         fixCommand |-> fix.fixCommand,
         priorityScore |-> score,
         priorityCategory |-> priorityCategory(scoring, score)]

LoadDone == ret.op = "loadConfig"

\* a raw entry that has every field the processor reads
WellFormed(raw) ==
    {"name", "severity", "isDirect", "via", "effects", "range", "fixAvailable"}
        \subseteq DOMAIN raw

\* main, line 318: the audit report is read after the configuration is loaded
GetAuditData(raw) ==
    /\ LoadDone
    /\ DOMAIN entry = {}
    /\ entry' = raw
    /\ UNCHANGED <<config, fs, pending, ret, nops, processed, builtin, cli, report, exit>>

\* main, lines 320-321: new VulnerabilityProcessor(config).processAuditReport(auditData),
\* config being the value loadConfig returned
ProcessAuditReport ==
    /\ DOMAIN entry /= {}
    /\ WellFormed(entry)
    /\ processed = <<>>
    /\ processed' = <<processVulnerability(entry, ret.value.scoring)>>
    /\ UNCHANGED <<config, fs, pending, ret, nops, entry, builtin, cli, report, exit>>

(***************************************************************************)
(* The report generator, src/core/ExcelReportGenerator.ts.  The worksheet  *)
(* is the sequence of its rows, a row the sequence of its cells; a cell is *)
(* a string or a number.  Worksheet.addRow puts a row after the last row   *)
(* the worksheet holds, and Worksheet.mergeCells creates the rows of the   *)
(* range it merges when the worksheet does not hold them yet.              *)
(***************************************************************************)
Str(text) == [type |-> "string", text |-> text]

Num(number) == [type |-> "number", number |-> number]

\* t(key): the translation of a key, kept apart from the key itself
t(key) == "[" \o key \o "]"

\* new Date().toLocaleString(), at the time of the run
toLocaleString == "1/1/2025, 12:00:00 AM"

addRow(rows, values) == Append(rows, values)

mergeCells(rows, top) ==
    IF Len(rows) >= top THEN rows
    ELSE rows \o [i \in 1..(top - Len(rows)) |-> <<>>]

\* Object.values(this.config.columns.visible).filter(Boolean).length
visibleColumnsCount(cfg) ==
    Cardinality({ c \in DOMAIN cfg.columns.visible : cfg.columns.visible[c] })

addTitle(rows, cfg) ==
    LET timestamp == IF cfg.output.includeTimestamp
                     THEN " - " \o toLocaleString ELSE ""
    IN  mergeCells(addRow(rows, <<Str(t("title") \o timestamp)>>), 1)

addSummary(rows) ==
    addRow(mergeCells(addRow(rows, <<Str(t("summary"))>>), 3), <<>>)

\* this.config.columns.visible[column], for a column of columns.order
isVisible(cfg, column) ==
    hasProperty(cfg.columns.visible, column) /\ cfg.columns.visible[column]

\* customHeader || headerMapping[column] || column
headerOf(cfg, column) ==
    IF /\ hasProperty(cfg.columns, "customHeaders")
       /\ hasProperty(cfg.columns.customHeaders, column)
       /\ Truthy(cfg.columns.customHeaders[column])
    THEN cfg.columns.customHeaders[column]
    ELSE t("headers." \o column)

\* addHeaders, lines 90-97: the header of every column of columns.order
\* that is visible, in that order
headers(cfg) ==
    LET shown == SelectSeq(cfg.columns.order, LAMBDA column : isVisible(cfg, column))
    IN  [i \in 1..Len(shown) |-> Str(headerOf(cfg, shown[i]))]

addHeaders(rows, cfg) == addRow(rows, headers(cfg))

\* notes.join(' | ')
RECURSIVE joinNotes(_)
joinNotes(notes) ==
    IF Len(notes) = 0 THEN ""
    ELSE IF Len(notes) = 1 THEN notes[1]
    ELSE notes[1] \o " | " \o joinNotes(Tail(notes))

generateNotes(vuln) ==
    joinNotes(
        (IF vuln.isSemVerMajor /\ vuln.fixAvailable
         THEN <<t("notes.majorChangeRequired")>> ELSE <<>>)
        \o (IF ~vuln.fixAvailable THEN <<t("notes.lookForAlternative")>> ELSE <<>>)
        \o (IF vuln.isDirect /\ vuln.severity \in {"critical", "high"}
            THEN <<t("notes.criticalDirect")>> ELSE <<>>))

truncate(text, maxLength) ==
    IF Len(text) <= maxLength THEN text
    ELSE SubSeq(text, 1, maxLength) \o "..."

\* vuln.priorityCategory.toLowerCase()
toLowerCase == [URGENT |-> "urgent", HIGH |-> "high", MEDIUM |-> "medium", LOW |-> "low"]

createDataMapping(cfg, vuln) ==
    [priority |-> Str(t("priority." \o toLowerCase[vuln.priorityCategory])),
     score |-> Num(vuln.priorityScore),
     package |-> Str(vuln.package),
     severity |-> Str(t("severity." \o vuln.severity)),
     cvss |-> IF vuln.cvssScore > 0 THEN Num(vuln.cvssScore) ELSE Str("-"),
     dependencyType |-> IF vuln.isDirect THEN Str(t("dependencyType.direct"))
                        ELSE Str(t("dependencyType.indirect")),
     fixAvailable |-> IF vuln.fixAvailable THEN Str(t("boolean.available"))
                      ELSE Str(t("boolean.notAvailable")),
     fixVersion |-> Str(vuln.fixVersion),
     majorChange |-> IF vuln.isSemVerMajor THEN Str(t("boolean.yes"))
                     ELSE Str(t("boolean.no")),
     vulnerability |-> Str(truncate(vuln.vulnerabilityTitle,
                                    cfg.layout.textLimits.vulnerabilityTitle)),
     cwe |-> Str(vuln.cwe),
     affectedPackages |-> Num(vuln.effectsCount),
     vulnerableRange |-> Str(vuln.range),
     fixCommand |-> IF Truthy(vuln.fixCommand) THEN Str(vuln.fixCommand)
                    ELSE Str(t("commands.noFixAvailable")),
     advisoryUrl |-> Str(vuln.advisoryUrl),
     notes |-> Str(generateNotes(vuln))]

\* createRowData, lines 146-154
createRowData(cfg, dataMapping) ==
    LET shown == SelectSeq(cfg.columns.order, LAMBDA column : isVisible(cfg, column))
    IN  [i \in 1..Len(shown) |-> dataMapping[shown[i]]]

RECURSIVE addData(_, _, _)
addData(rows, cfg, vulnerabilities) ==
    IF Len(vulnerabilities) = 0 THEN rows
    ELSE addData(addRow(rows, createRowData(cfg,
                                            createDataMapping(cfg, Head(vulnerabilities)))),
                 cfg, Tail(vulnerabilities))

getHeaderRowNumber(cfg) ==
    IF cfg.output.includeTitle /\ cfg.output.includeSummary THEN 5
    ELSE IF cfg.output.includeTitle \/ cfg.output.includeSummary THEN 3
    ELSE 1

\* applyAutoFilter: the row of the filter and the number of its columns
applyAutoFilter(cfg) ==
    [applied |-> TRUE, row |-> getHeaderRowNumber(cfg),
     columns |-> visibleColumnsCount(cfg)]

NoAutoFilter == [applied |-> FALSE, row |-> 0, columns |-> 0]

\* applyFreezePane: worksheet.views[0]
applyFreezePane(cfg) ==
    [state |-> "frozen", xSplit |-> cfg.layout.freezePanes.col,
     ySplit |-> getHeaderRowNumber(cfg)]

\* generateReport(vulnerabilities, metadata, outputPath): the worksheet
\* written, with the number of the row addHeaders added
generateReport(cfg, vulnerabilities) ==
    LET titled     == IF cfg.output.includeTitle THEN addTitle(<<>>, cfg) ELSE <<>>
        summarized == IF cfg.output.includeSummary THEN addSummary(titled) ELSE titled
        headed     == addHeaders(summarized, cfg)
    IN  [name |-> cfg.output.worksheetName,
         rows |-> addData(headed, cfg, vulnerabilities),
         headerRow |-> Len(headed),
         autoFilter |-> IF cfg.layout.enableAutoFilter THEN applyAutoFilter(cfg)
                        ELSE NoAutoFilter,
         views |-> <<applyFreezePane(cfg)>>]

(***************************************************************************)
(* One run of the command line, main() of src/cli.ts, from the parsing of  *)
(* the options to the exit of the process.                                 *)
(***************************************************************************)
EXIT_CODES ==
    [SUCCESS |-> 0, ERROR |-> 1, FILE_NOT_FOUND |-> 2, INVALID_JSON |-> 3,
     INVALID_CONFIG |-> 4]

\* main, lines 300-304: the argument of loadConfig
MainOptions(c) ==
    LET inlineConfig == inlineConfigOf(c.showColumns, c.hideColumns, c.colors)
    IN  Options(c.preset, c.config, DOMAIN inlineConfig /= {}, inlineConfig)

\* main, lines 286-304, when no --config is given
MainLoadConfigNoFile ==
    /\ nops = 0
    /\ LoadConfigNoFile(MainOptions(cli))

\* main, lines 286-304, up to the file read of loadConfig
MainLoadConfigStart ==
    /\ nops = 0
    /\ LoadConfigStart(MainOptions(cli))

\* getAuditData fails: the input file cannot be read or is no JSON, or
\* npm audit cannot be run
GetAuditDataThrows ==
    /\ LoadDone
    /\ DOMAIN entry = {}
    /\ ret' = Thrown("getAuditData", ret.options, "", "Failed to run npm audit", config)
    /\ UNCHANGED <<config, fs, pending, nops, entry, processed, builtin, cli, report, exit>>

\* processAuditReport fails on an entry that lacks a field it reads
ProcessAuditReportThrows ==
    /\ LoadDone
    /\ DOMAIN entry /= {}
    /\ ~WellFormed(entry)
    /\ processed = <<>>
    /\ ret' = Thrown("processAuditReport", ret.options, "", "Cannot read properties of undefined",
                     config)
    /\ UNCHANGED <<config, fs, pending, nops, entry, processed, builtin, cli, report, exit>>

\* a run that writes the report as soon as the configuration is loaded
GenerateReport_BeforeProcessing ==
    /\ LoadDone
    /\ DOMAIN report = {}
    /\ report' = generateReport(ret.value, processed)
    /\ UNCHANGED <<config, fs, pending, ret, nops, entry, processed, builtin, cli, exit>>

\* main, line 330: the report is generated from the processed entries and
\* the configuration loadConfig returned, and written to the output file
GenerateReport ==
    /\ LoadDone
    /\ Len(processed) > 0
    /\ DOMAIN report = {}
    /\ report' = generateReport(ret.value, processed)
    /\ UNCHANGED <<config, fs, pending, ret, nops, entry, processed, builtin, cli, exit>>

\* main, line 330: workbook.xlsx.writeFile rejects
GenerateReportThrows ==
    /\ LoadDone
    /\ Len(processed) > 0
    /\ DOMAIN report = {}
    /\ ret' = Thrown("generateReport", ret.options, "", "EACCES: permission denied", config)
    /\ UNCHANGED <<config, fs, pending, nops, entry, processed, builtin, cli, report, exit>>

\* main, lines 335-340: the catch block
MainCatch ==
    /\ ret.threw
    /\ ret.op \in {"loadConfig", "getAuditData", "processAuditReport", "generateReport"}
    /\ ~exit.exited
    /\ exit' = [exited |-> TRUE, code |-> EXIT_CODES.ERROR]
    /\ UNCHANGED <<config, fs, pending, ret, nops, entry, processed, builtin, cli, report>>

\* main, lines 332-334 and 341: main returns and the process ends
MainReturns ==
    /\ DOMAIN report /= {}
    /\ ~exit.exited
    /\ exit' = [exited |-> TRUE, code |-> EXIT_CODES.SUCCESS]
    /\ UNCHANGED <<config, fs, pending, ret, nops, entry, processed, builtin, cli, report>>

(***************************************************************************)
(* Inputs: partial configurations a file or a caller may supply.           *)
(***************************************************************************)
\* partial configurations that pass validateConfig
ValidPartials ==
    { EmptyObject,
      [columns |-> [visible |-> [priority |-> FALSE]]],
      [columns |-> [visible |-> [package |-> FALSE]]],
      [columns |-> [visible |-> [priority |-> TRUE, package |-> TRUE, severity |-> FALSE]]],
      [columns |-> [order |-> <<"package", "severity", "priority">>,
                    widths |-> [package |-> 40]]],
      [columns |-> [customHeaders |-> [package |-> "Pkg"]]],
      [columns |-> [customHeaders |-> [severity |-> "Sev", package |-> "Module"],
                    widths |-> [package |-> 50, score |-> 9]]],
      [colors |-> [priority |-> [urgent |-> "FF112233"]]],
      [colors |-> [priority |-> [urgent |-> "#abcdef", high |-> "00ff00"],
                   border |-> "FF000000"]],
      [colors |-> [severity |-> [low |-> "FF00FF00"],
                   text |-> [white |-> "FFFFFFF0"],
                   background |-> [header |-> "#00000080"],
                   cvss |-> [highRisk |-> "AA0000"],
                   fix |-> [available |-> "112233"]]],
      [layout |-> [enableAutoFilter |-> FALSE]],
      [layout |-> [rowHeights |-> [title |-> 40], fontSizes |-> [summary |-> 10],
                   textLimits |-> [vulnerabilityTitle |-> 60],
                   freezePanes |-> [row |-> 1], enableAutoFilter |-> TRUE]],
      [scoring |-> [severityWeights |-> [critical |-> 50]]],
      [scoring |-> [severityWeights |-> [critical |-> 45, low |-> 1],
                    bonusPoints |-> [highCvss |-> 20],
                    penalties |-> [majorVersion |-> 1],
                    thresholds |-> [highCvss |-> 80]]],
      [scoring |-> [thresholds |-> [urgentPriority |-> 60]]],
      [output |-> [worksheetName |-> "Audit"]],
      [output |-> [includeTitle |-> FALSE, worksheetName |-> "Sheet1"]],
      [columns |-> [visible |-> [notes |-> FALSE]],
       scoring |-> [thresholds |-> [mediumCvss |-> 60]],
       output |-> [includeSummary |-> FALSE]] }

\* partial configurations with an invalid color in a priority or severity
\* group, an unknown column name, a width that is not positive, an unknown
\* severity, a negative weight or a CVSS threshold outside 0..10; each also
\* carries fields that are valid
RejectedPartials ==
    { [colors |-> [priority |-> [urgent |-> "invalid-color"],
                   severity |-> [low |-> "FF00FF00"]]],
      [colors |-> [severity |-> [critical |-> "#12345"]],
       output |-> [worksheetName |-> "Colors"]],
      [columns |-> [visible |-> [invalidColumn |-> TRUE, notes |-> FALSE]]],
      [columns |-> [order |-> <<"priority", "bogus">>],
       layout |-> [enableAutoFilter |-> FALSE]],
      [columns |-> [widths |-> [package |-> 0, score |-> 10]]],
      [scoring |-> [severityWeights |-> [bogus |-> 3, high |-> 35]]],
      [scoring |-> [severityWeights |-> [critical |-> -1]],
       output |-> [worksheetName |-> "Neg"]],
      [scoring |-> [thresholds |-> [highCvss |-> 110, urgentPriority |-> 70]]] }

\* partial configurations whose color fields outside the priority and
\* severity groups, or whose empty color, are no hex codes
OddColorPartials ==
    { [colors |-> [text |-> [white |-> "notacolor"]]],
      [colors |-> [border |-> "zzz"]],
      [colors |-> [background |-> [header |-> "12345"],
                   cvss |-> [highRisk |-> "red"],
                   fix |-> [available |-> "GGGGGG"]]],
      [colors |-> [priority |-> [urgent |-> ""]]] }

Partials == ValidPartials \cup RejectedPartials \cup OddColorPartials

\* partial configurations whose columns section uses every group: one with
\* recognized names only, the others with a custom header for a column that
\* does not exist
HeaderPartials ==
    { [columns |-> [visible |-> [cwe |-> TRUE, notes |-> FALSE],
                    order |-> <<"cwe", "notes">>,
                    widths |-> [cwe |-> 1],
                    customHeaders |-> [cwe |-> "Weakness"]]],
      [columns |-> [customHeaders |-> [bogus |-> "Bogus"]]],
      [columns |-> [visible |-> [notes |-> FALSE],
                    customHeaders |-> [invalidColumn |-> "X", package |-> "Pkg"]]] }

\* scoring sections at and beyond the limits validateScoring checks: CVSS
\* thresholds of 10.0 and 0.0, of -0.5 and of 10.1, and a weight of 0
LimitPartials ==
    { [scoring |-> [severityWeights |-> [info |-> 0, moderate |-> 25],
                    thresholds |-> [highCvss |-> 100, mediumCvss |-> 0]]],
      [scoring |-> [thresholds |-> [mediumCvss |-> -5]]],
      [scoring |-> [thresholds |-> [mediumCvss |-> 101, highPriority |-> 30]]] }

\* scoring sections whose priority thresholds, laid over the defaults
\* 50/35/20, are not in descending order
OrderPartials ==
    { [scoring |-> [thresholds |-> [urgentPriority |-> 10]]],
      [scoring |-> [thresholds |-> [highPriority |-> 60, mediumPriority |-> 55]]] }

\* partial configurations a file may hold besides the ones above
FilePartials == HeaderPartials \cup LimitPartials \cup OrderPartials

\* what the configuration file may hold
FileContents ==
    { [kind |-> k, data |-> EmptyObject] :
        k \in {"missing", "unreadable", "garbage", "null", "array"} }
    \cup { JsonObject(d) : d \in Partials \cup FilePartials }

PresetArgs == {""} \cup PresetNames \cup {"nonexistent"}

ConfigFileArgs == {"", "npm-audit-excel.config.json"}

OptionsOver(presets, inlines) ==
    { [preset |-> p, configFile |-> f, hasInline |-> FALSE, inlineConfig |-> EmptyObject] :
        p \in presets, f \in ConfigFileArgs }
    \cup
    { [preset |-> p, configFile |-> f, hasInline |-> TRUE, inlineConfig |-> i] :
        p \in presets, f \in ConfigFileArgs, i \in inlines }

\* every combination of sources, for the first call on a fresh singleton
AllOptions == OptionsOver(PresetArgs, Partials)

\* the sources used when calls follow one another on the singleton
VisibleUpdate == [columns |-> [visible |-> [priority |-> FALSE]]]

HeaderUpdate == [columns |-> [customHeaders |-> [package |-> "Pkg"]]]

WeightUpdate == [scoring |-> [severityWeights |-> [critical |-> 50]]]

BadColorFile ==
    [colors |-> [priority |-> [urgent |-> "invalid-color"],
                 severity |-> [low |-> "FF00FF00"]]]

SomePartials == {VisibleUpdate, HeaderUpdate}

SomeContents ==
    { [kind |-> "missing", data |-> EmptyObject],
      JsonObject(WeightUpdate),
      JsonObject(BadColorFile) }

SomePresets == {"minimal", "highContrast", "nonexistent"}

SomeOptions ==
    { NoOptions,
      Options("minimal", "", FALSE, EmptyObject),
      Options("nonexistent", "", FALSE, EmptyObject),
      Options("", "", TRUE, VisibleUpdate),
      Options("", "npm-audit-excel.config.json", FALSE, EmptyObject),
      Options("highContrast", "npm-audit-excel.config.json", FALSE, EmptyObject),
      Options("minimal", "npm-audit-excel.config.json", TRUE, HeaderUpdate) }

\* the column options parsed between the calls: --show-columns,
\* --hide-columns, both, and a list with an unknown name
SomeColumnOptions ==
    { [show |-> "priority,package, fixCommand", hide |-> ""],
      [show |-> "", hide |-> "cwe,advisoryUrl,notes"],
      [show |-> "priority,package,bogus", hide |-> "package"] }

SomeSchemes ==
    { HighContrastScheme, GarbageScheme,
      JsonObject([priority |-> [urgent |-> "#FF0000"]]),
      JsonObject([priority |-> [urgent |-> "red"]]) }

(***************************************************************************)
(* Specification: calls following one another on the singleton.            *)
(***************************************************************************)
InitRet == Returned("init", NoOptions, NoContent, "", DEFAULT_CONFIG, EmptyObject)

\* no audit entry has been handed to the processor
NoEntry == EmptyObject

\* the singleton is used as a library: there is no run of the command line
NoCli == EmptyObject

\* no worksheet has been written
NoReport == EmptyObject

\* the process has not exited
Running == [exited |-> FALSE, code |-> 0]

Init ==
    /\ config = DEFAULT_CONFIG
    /\ fs \in SomeContents
    /\ pending = {}
    /\ ret = InitRet
    /\ nops = 0
    /\ entry = NoEntry
    /\ processed = <<>>
    /\ builtin = DEFAULT_CONFIG
    /\ cli = NoCli
    /\ report = NoReport
    /\ exit = Running

Next ==
    \/ \E options \in SomeOptions : nops < MaxOps /\ LoadConfigNoFile(options)
    \/ \E options \in SomeOptions : nops < MaxOps /\ LoadConfigStart(options)
    \/ \E call \in pending : LoadConfigResume(call)
    \/ \E presetName \in SomePresets : nops < MaxOps /\ ApplyPreset(presetName)
    \/ \E updates \in SomePartials : nops < MaxOps /\ UpdateConfig(updates)
    \/ nops < MaxOps /\ ResetToDefault
    \/ nops < MaxOps /\ GenerateSampleConfig
    \/ nops < MaxOps /\ GetAvailablePresets
    \/ \E c \in SomeColumnOptions : nops < MaxOps /\ ParseColumnOptions(c.show, c.hide)
    \/ \E colorScheme \in SomeSchemes : nops < MaxOps /\ ParseColorOptions(colorScheme)
    \/ \E content \in SomeContents : WriteFile(content)

Spec == Init /\ [][Next]_vars

(***************************************************************************)
(* Specification: the first loadConfig call on a fresh singleton, over     *)
(* every combination of preset, file content and inline configuration.     *)
(***************************************************************************)
InitResolve ==
    /\ config = DEFAULT_CONFIG
    /\ fs \in FileContents
    /\ pending = {}
    /\ ret = InitRet
    /\ nops = 0
    /\ entry = NoEntry
    /\ processed = <<>>
    /\ builtin = DEFAULT_CONFIG
    /\ cli = NoCli
    /\ report = NoReport
    /\ exit = Running

NextResolve ==
    \/ \E options \in AllOptions : nops = 0 /\ LoadConfigNoFile(options)
    \/ \E options \in AllOptions : nops = 0 /\ LoadConfigStart(options)
    \/ \E call \in pending : LoadConfigResume(call)

SpecResolve == InitResolve /\ [][NextResolve]_vars

(***************************************************************************)
(* Specification: one run of the command line on one audit entry: the      *)
(* configuration is loaded from a file that passes validation, the audit   *)
(* entry is read, and the processor scores it.                             *)
(***************************************************************************)
MaxEffects == 6

\* scoring sections that pass validateConfig, besides the ones above: a
\* weight for high above the one for critical, a cap that is no multiple of
\* the penalty per package, CVSS thresholds in ascending order
ScoringPartials ==
    { [scoring |-> [severityWeights |-> [high |-> 45]]],
      [scoring |-> [penalties |-> [effectsPerPackage |-> 3, maxEffectsPenalty |-> 7]]],
      [scoring |-> [thresholds |-> [highCvss |-> 50, mediumCvss |-> 70]]] }

\* the configuration files of the runs
ScoringFiles ==
    { JsonObject(d) :
        d \in { EmptyObject,
                [scoring |-> [severityWeights |-> [critical |-> 50]]],
                [scoring |-> [severityWeights |-> [critical |-> 45, low |-> 1],
                              bonusPoints |-> [highCvss |-> 20],
                              penalties |-> [majorVersion |-> 1],
                              thresholds |-> [highCvss |-> 80]]],
                [scoring |-> [thresholds |-> [urgentPriority |-> 60]]] }
              \cup { d \in LimitPartials : validateConfig(JsonObject(d)) = "" }
              \cup OrderPartials \cup ScoringPartials }

ViaSamples ==
    { <<>>,
      <<ViaName("minimist")>>,
      <<ViaDetail("Prototype Pollution", "https://github.com/advisories/GHSA-p6mc-m468-83gw",
                  <<"CWE-1321">>, 95)>>,
      <<ViaName("minimist"),
        ViaDetail("ReDoS", "https://github.com/advisories/GHSA-29mw-wpgm-hmr9",
                  <<"CWE-400", "CWE-1333">>, 70)>>,
      <<ViaDetail("Command Injection", "https://github.com/advisories/GHSA-35jh-r3h4-6jhm",
                  <<>>, 89),
        ViaDetail("Cross-site Scripting", "", <<"CWE-79">>, 100)>>,
      <<ViaDetail("Open Redirect", "", <<"CWE-601">>, 90)>>,
      <<ViaDetail("Information Exposure", "", <<"CWE-200">>, 69)>>,
      <<ViaDetail("Unscored", "", <<>>, 0)>> }

FixSamples ==
    { FixFalse,
      FixInfo("lodash", "4.17.21"),
      FixInfoMajor("lodash", "4.17.21", FALSE),
      FixInfoMajor("lodash", "5.0.0", TRUE) }

Effects(n) == [i \in 1..n |-> "dep" \o ToString(i)]

\* the raw entries of the audit report
RawEntries ==
    { [name |-> "lodash", severity |-> severity, isDirect |-> isDirect, via |-> via,
       effects |-> Effects(n), range |-> "<4.17.21", fixAvailable |-> fixAvailable] :
        severity \in validSeverities, isDirect \in BOOLEAN, via \in ViaSamples,
        n \in 0..MaxEffects, fixAvailable \in FixSamples }

FileOnly == Options("", "npm-audit-excel.config.json", FALSE, EmptyObject)

InitScore ==
    /\ config = DEFAULT_CONFIG
    /\ fs \in ScoringFiles
    /\ pending = {}
    /\ ret = InitRet
    /\ nops = 0
    /\ entry = NoEntry
    /\ processed = <<>>
    /\ builtin = DEFAULT_CONFIG
    /\ cli = NoCli
    /\ report = NoReport
    /\ exit = Running

NextScore ==
    \/ nops = 0 /\ LoadConfigStart(FileOnly)
    \/ \E call \in pending : LoadConfigResume(call)
    \/ \E raw \in RawEntries : GetAuditData(raw)
    \/ ProcessAuditReport

SpecScore == InitScore /\ [][NextScore]_vars

(***************************************************************************)
(* Specification: one run of the command line with its options: a preset,  *)
(* a configuration file, column options; the audit data is read, processed *)
(* and reported, or one of these steps fails.                              *)
(***************************************************************************)
CliRun(preset, configFile, showColumns, hideColumns) ==
    [preset |-> preset, config |-> configFile, showColumns |-> showColumns,
     hideColumns |-> hideColumns, colors |-> NoScheme]

CliColumnOptions ==
    { [show |-> "", hide |-> ""],
      [show |-> "score,package", hide |-> ""],
      [show |-> "", hide |-> "cwe,advisoryUrl,notes"] }

CliRuns ==
    { CliRun(preset, configFile, c.show, c.hide) :
        preset \in {"", "minimal", "developer"},
        configFile \in ConfigFileArgs,
        c \in CliColumnOptions }
    \cup { [CliRun("", "", "", "") EXCEPT !.colors = HighContrastScheme] }

\* the configuration files of the runs: none, the three ways of leaving
\* out the title and the summary, a file without the auto filter, a file
\* that orders and sizes three columns, and one that shows the notes
CliFiles ==
    { [kind |-> "missing", data |-> EmptyObject] }
    \cup { JsonObject(d) :
             d \in { [output |-> [includeSummary |-> FALSE]],
                     [output |-> [includeTitle |-> FALSE]],
                     [output |-> [includeTitle |-> FALSE, includeSummary |-> FALSE]],
                     [layout |-> [enableAutoFilter |-> FALSE]],
                     [columns |-> [order |-> <<"package", "severity", "priority">>,
                                   widths |-> [package |-> 40]]],
                     [columns |-> [visible |-> [notes |-> TRUE, cwe |-> FALSE]]] } }

\* the audit entries of the runs; the last one lacks the fields via,
\* effects and fixAvailable
CliEntries ==
    { [name |-> "lodash", severity |-> "critical", isDirect |-> TRUE,
       via |-> <<ViaDetail("Prototype Pollution",
                           "https://github.com/advisories/GHSA-p6mc-m468-83gw",
                           <<"CWE-1321">>, 95)>>,
       effects |-> Effects(1), range |-> "<4.17.21",
       fixAvailable |-> FixInfoMajor("lodash", "5.0.0", TRUE)],
      [name |-> "minimist", severity |-> "low", isDirect |-> FALSE, via |-> <<>>,
       effects |-> Effects(0), range |-> "<1.2.6", fixAvailable |-> FixFalse],
      [name |-> "broken", severity |-> "high", isDirect |-> TRUE, range |-> "*"] }

InitCli ==
    /\ config = DEFAULT_CONFIG
    /\ fs \in CliFiles
    /\ pending = {}
    /\ ret = InitRet
    /\ nops = 0
    /\ entry = NoEntry
    /\ processed = <<>>
    /\ builtin = DEFAULT_CONFIG
    /\ cli \in CliRuns
    /\ report = NoReport
    /\ exit = Running

NextCli ==
    \/ MainLoadConfigNoFile
    \/ MainLoadConfigStart
    \/ \E call \in pending : LoadConfigResume(call)
    \/ \E raw \in CliEntries : GetAuditData(raw)
    \/ GetAuditDataThrows
    \/ ProcessAuditReport
    \/ ProcessAuditReportThrows
    \/ GenerateReport
    \/ GenerateReportThrows
    \/ MainCatch
    \/ MainReturns

SpecCli == InitCli /\ [][NextCli]_vars

\* the catch block runs as soon as a step has thrown, and the process exits
SpecCliFair == SpecCli /\ WF_vars(MainCatch)

(***************************************************************************)
(* Leaf fields of a (partial) configuration, after the ReportConfig        *)
(* interface: the nested records of each section, and the paths to the     *)
(* leaves an object mentions.                                              *)
(***************************************************************************)
RecordGroups ==
    [columns |-> {"visible", "widths", "customHeaders"},
     colors  |-> {"priority", "severity", "text", "background", "cvss", "fix"},
     layout  |-> {"rowHeights", "fontSizes", "textLimits", "freezePanes"},
     scoring |-> {"severityWeights", "bonusPoints", "penalties", "thresholds"},
     output  |-> {}]

LeafPaths(obj) ==
    UNION { { <<s, k>> : k \in (DOMAIN obj[s]) \ RecordGroups[s] }
            \cup UNION { { <<s, g, k>> : k \in DOMAIN obj[s][g] } :
                           g \in RecordGroups[s] \cap DOMAIN obj[s] } :
            s \in (DOMAIN obj) \cap DOMAIN RecordGroups }

ValueAt(obj, p) ==
    IF Len(p) = 2 THEN obj[p[1]][p[2]] ELSE obj[p[1]][p[2]][p[3]]

Mentions(obj, p) == p \in LeafPaths(obj)

\* the value of leaf p in the highest-precedence layer that mentions it
Expected(p, preset, file, inline) ==
    IF Mentions(inline, p) THEN ValueAt(inline, p)
    ELSE IF Mentions(file, p) THEN ValueAt(file, p)
    ELSE IF Mentions(preset, p) THEN ValueAt(preset, p)
    ELSE ValueAt(DEFAULT_CONFIG, p)

\* the layers of a completed loadConfig call
FileGiven == Truthy(ret.options.configFile)

PresetOf(options) ==
    IF options.preset \in PresetNames THEN PRESET_CONFIGS[options.preset] ELSE EmptyObject

\* the file layer counts when the file was read, parsed and not warned about
FileOf(r) ==
    IF Truthy(r.options.configFile) /\ r.content.kind = "object" /\ r.warned = ""
    THEN r.content.data ELSE EmptyObject

InlineOf(options) == IF options.hasInline THEN options.inlineConfig ELSE EmptyObject

\* result has exactly the leaves of the layers, each with the value of the
\* highest layer that mentions it
ResolvedFrom(result, preset, file, inline) ==
    LET all == LeafPaths(DEFAULT_CONFIG) \cup LeafPaths(preset)
               \cup LeafPaths(file) \cup LeafPaths(inline)
    IN  /\ LeafPaths(result) = all
        /\ \A p \in all : ValueAt(result, p) = Expected(p, preset, file, inline)

(***************************************************************************)
(* C1: loadConfig resolves the layers with precedence defaults < preset <  *)
(* file < inline: every leaf field of the returned configuration has the   *)
(* value given by the highest-precedence layer that mentions it, and the   *)
(* default value when no layer mentions it.                                *)
(***************************************************************************)
C1_Precedence ==
    LoadDone =>
        ResolvedFrom(ret.value, PresetOf(ret.options), FileOf(ret), InlineOf(ret.options))

\* the test's scenario: minimal preset, a file hiding priority, an inline
\* configuration hiding package
C1_Witness ==
    /\ LoadDone
    /\ ret.options.preset = "minimal"
    /\ FileOf(ret) = [columns |-> [visible |-> [priority |-> FALSE]]]
    /\ InlineOf(ret.options) = [columns |-> [visible |-> [package |-> FALSE]]]
    /\ ret.value.columns.visible.priority = FALSE
    /\ ret.value.columns.visible.package = FALSE
    /\ ret.value.columns.visible.notes = FALSE
    /\ ret.value.columns.visible.severity = TRUE
    /\ ret.value.output = DEFAULT_CONFIG.output

(***************************************************************************)
(* C2: the merge of the file layer and of the inline layer is per key      *)
(* inside every nested record and inside every section: a key the layer    *)
(* does not mention keeps the value the lower layers gave it, and a key    *)
(* the file customised is not reverted by an inline layer that does not    *)
(* mention it.                                                             *)
(***************************************************************************)
\* every key of lower that layer does not mention is in upper unchanged
KeepsOtherKeys(lower, layer, upper) ==
    \A s \in DOMAIN lower :
        /\ s \in DOMAIN upper
        /\ \A k \in (DOMAIN lower[s]) \ RecordGroups[s] :
              k \notin DOMAIN Sub(layer, s) =>
                  k \in DOMAIN upper[s] /\ upper[s][k] = lower[s][k]
        /\ \A g \in RecordGroups[s] \cap DOMAIN lower[s] :
              /\ g \in DOMAIN upper[s]
              /\ \A k \in DOMAIN lower[s][g] :
                    k \notin DOMAIN Sub(Sub(layer, s), g) =>
                        k \in DOMAIN upper[s][g] /\ upper[s][g][k] = lower[s][g][k]

C2_PerKeyMerge ==
    LoadDone =>
        LET presetOnly == [NoOptions EXCEPT !.preset = ret.options.preset]
            withFile   == [presetOnly EXCEPT !.configFile = ret.options.configFile]
            r0 == loadConfig(DEFAULT_CONFIG, presetOnly, NoContent)
            r1 == loadConfig(DEFAULT_CONFIG, withFile, ret.content)
        IN  /\ KeepsOtherKeys(r0, FileOf(ret), r1)
            /\ KeepsOtherKeys(r1, InlineOf(ret.options), ret.value)
            /\ \A p \in LeafPaths(FileOf(ret)) \ LeafPaths(InlineOf(ret.options)) :
                  Mentions(ret.value, p) /\ ValueAt(ret.value, p) = ValueAt(FileOf(ret), p)

\* the file sets three colors, the inline configuration one key of the same
\* record: the file's other key and the untouched default both survive
C2_Witness ==
    /\ LoadDone
    /\ FileOf(ret) = [colors |-> [priority |-> [urgent |-> "#abcdef", high |-> "00ff00"],
                                  border |-> "FF000000"]]
    /\ InlineOf(ret.options) = [colors |-> [priority |-> [urgent |-> "FF112233"]]]
    /\ ret.value.colors.priority.urgent = "FF112233"
    /\ ret.value.colors.priority.high = "00ff00"
    /\ ret.value.colors.priority.medium = DEFAULT_CONFIG.colors.priority.medium
    /\ ret.value.colors.border = "FF000000"

(***************************************************************************)
(* C3: for each built-in preset, loadConfig({preset}) returns a            *)
(* configuration in which every field the preset mentions has the preset's *)
(* value and every other field has its DEFAULT_CONFIG value.               *)
(***************************************************************************)
PresetAlone ==
    /\ LoadDone
    /\ ret.options.preset \in {"minimal", "developer", "security", "highContrast"}
    /\ ~FileGiven
    /\ ~ret.options.hasInline

C3_PresetFrame ==
    PresetAlone =>
        LET preset == PRESET_CONFIGS[ret.options.preset]
        IN  /\ LeafPaths(ret.value) = LeafPaths(DEFAULT_CONFIG) \cup LeafPaths(preset)
            /\ \A p \in LeafPaths(preset) : ValueAt(ret.value, p) = ValueAt(preset, p)
            /\ \A p \in LeafPaths(DEFAULT_CONFIG) \ LeafPaths(preset) :
                  ValueAt(ret.value, p) = ValueAt(DEFAULT_CONFIG, p)

C3_Witness ==
    /\ PresetAlone
    /\ ret.options.preset = "security"
    /\ ret.value.columns.visible.fixCommand = FALSE
    /\ ret.value.columns.order[2] = "severity"
    /\ ret.value.colors = DEFAULT_CONFIG.colors
    /\ ret.value.scoring = DEFAULT_CONFIG.scoring

(***************************************************************************)
(* C4: loadConfig discards the configuration held before: whatever calls   *)
(* preceded it, it returns what a freshly constructed singleton returns    *)
(* for the same options and file content, DEFAULT_CONFIG when no option is *)
(* given, and the singleton then holds the returned value.                 *)
(***************************************************************************)
C4_DiscardsPrevious ==
    LoadDone =>
        /\ ret.value = loadConfig(DEFAULT_CONFIG, ret.options, ret.content)
        /\ (ret.options = NoOptions => ret.value = DEFAULT_CONFIG)
        /\ config = ret.value

\* a customised configuration was held, and loadConfig() put the default back
C4_Witness ==
    /\ LoadDone
    /\ ret.options = NoOptions
    /\ ret.before /= DEFAULT_CONFIG
    /\ ret.before.columns.visible.priority = FALSE
    /\ config = DEFAULT_CONFIG

(***************************************************************************)
(* C5: loadConfig given a preset name that is not in the registry fails    *)
(* with an unknown-preset error and returns no configuration.              *)
(***************************************************************************)
UnknownPresetRequested ==
    /\ LoadDone
    /\ Truthy(ret.options.preset)
    /\ ret.options.preset \notin {"minimal", "developer", "security", "highContrast"}

C5_UnknownPresetFails ==
    UnknownPresetRequested => ret.threw /\ ret.code = "UNKNOWN_PRESET"

(***************************************************************************)
(* C6: applyPreset with a name that is not a registry key throws an error  *)
(* with code UNKNOWN_PRESET and message 'Unknown preset: <name>' and       *)
(* leaves the singleton's configuration as it was before the call.         *)
(***************************************************************************)
UnknownPresetApplied ==
    /\ ret.op = "applyPreset"
    /\ ret.options.preset \notin {"minimal", "developer", "security", "highContrast"}

C6_ApplyUnknownPreset ==
    UnknownPresetApplied =>
        /\ ret.threw
        /\ ret.code = "UNKNOWN_PRESET"
        /\ ret.message = "Unknown preset: " \o ret.options.preset
        /\ config = ret.before

\* the call failed on a singleton that held a customised configuration
C6_Witness ==
    /\ UnknownPresetApplied
    /\ ret.options.preset = "nonexistent"
    /\ ret.message = "Unknown preset: nonexistent"
    /\ ret.before /= DEFAULT_CONFIG
    /\ config = ret.before

(***************************************************************************)
(* C7: a config file that does not exist or is not valid JSON is not fatal *)
(* to loadConfig: it returns what it returns for the same preset and       *)
(* inline configuration with no config file, the inline layer included.    *)
(***************************************************************************)
FileUnusable == LoadDone /\ FileGiven /\ ret.content.kind \in {"missing", "garbage"}

C7_UnusableFileSkipped ==
    FileUnusable =>
        /\ ~ret.threw
        /\ ret.value = loadConfig(DEFAULT_CONFIG, [ret.options EXCEPT !.configFile = ""],
                                  NoContent)
        /\ \A p \in LeafPaths(InlineOf(ret.options)) :
              Mentions(ret.value, p)
              /\ ValueAt(ret.value, p) = ValueAt(ret.options.inlineConfig, p)

C7_Witness ==
    /\ FileUnusable
    /\ ret.content.kind = "garbage"
    /\ ret.warned = "INVALID_JSON"
    /\ ret.options.preset = "minimal"
    /\ ret.options.hasInline
    /\ ret.options.inlineConfig = [output |-> [worksheetName |-> "Audit"]]
    /\ ret.value.output.worksheetName = "Audit"
    /\ ret.value.columns.visible.notes = FALSE

(***************************************************************************)
(* C8: a config file that parses but fails validation never makes          *)
(* loadConfig raise: the result is a full configuration built from the     *)
(* other layers, and no field of it comes from the rejected file, the      *)
(* file's valid fields included.                                           *)
(***************************************************************************)
FileRejected ==
    /\ LoadDone
    /\ FileGiven
    /\ ret.content.kind = "object"
    /\ ret.content.data \in RejectedPartials

C8_RejectedFileSkipped ==
    FileRejected =>
        /\ ~ret.threw
        /\ ResolvedFrom(ret.value, PresetOf(ret.options), EmptyObject, InlineOf(ret.options))

\* the rejected file also carried a valid severity color, which is not used
C8_Witness ==
    /\ FileRejected
    /\ ret.content.data = [colors |-> [priority |-> [urgent |-> "invalid-color"],
                                       severity |-> [low |-> "FF00FF00"]]]
    /\ ret.warned = "VALIDATION_FAILED"
    /\ ~ret.options.hasInline
    /\ ret.value.colors.priority.urgent = DEFAULT_CONFIG.colors.priority.urgent
    /\ ret.value.colors.severity.low = DEFAULT_CONFIG.colors.severity.low

(***************************************************************************)
(* C9: the inline configuration is merged last and is not gated on         *)
(* validation: every field it sets is in the resolved configuration        *)
(* unchanged, also when validation would reject the value.                 *)
(***************************************************************************)
C9_InlineNotGated ==
    (LoadDone /\ ret.options.hasInline) =>
        \A p \in LeafPaths(ret.options.inlineConfig) :
            Mentions(ret.value, p)
            /\ ValueAt(ret.value, p) = ValueAt(ret.options.inlineConfig, p)

\* a CVSS threshold of 11.0 and a color that is no hex code both get through
C9_Witness ==
    /\ LoadDone
    /\ ret.options.hasInline
    /\ \/ /\ ret.options.inlineConfig =
                [scoring |-> [thresholds |-> [highCvss |-> 110, urgentPriority |-> 70]]]
          /\ ret.value.scoring.thresholds.highCvss = 110
       \/ /\ ret.options.inlineConfig =
                [colors |-> [priority |-> [urgent |-> "invalid-color"],
                             severity |-> [low |-> "FF00FF00"]]]
          /\ ret.value.colors.priority.urgent = "invalid-color"
    /\ validateConfig(JsonObject(ret.options.inlineConfig)) = "VALIDATION_FAILED"

(***************************************************************************)
(* C10: validation reports an error for every color field, in any color    *)
(* group (priority, severity, text, background, cvss, fix, border), that   *)
(* is not a 6- or 8-digit hex code with an optional leading '#', and no    *)
(* color error when every color field is such a code.                      *)
(***************************************************************************)
PathName(p) ==
    IF Len(p) = 2 THEN p[1] \o "." \o p[2] ELSE p[1] \o "." \o p[2] \o "." \o p[3]

\* the color fields of a partial configuration that are no hex codes
BadColorFields(cfg) ==
    { p \in LeafPaths([colors |-> cfg.colors]) : ~isValidHexColor(ValueAt(cfg, p)) }

ColorsValidated ==
    /\ LoadDone
    /\ FileGiven
    /\ ret.content.kind = "object"
    /\ hasProperty(ret.content.data, "colors")

C10_EveryColorValidated ==
    ColorsValidated =>
        { e.path : e \in isValidColorConfig(ret.content.data.colors).errors }
            = { PathName(p) : p \in BadColorFields(ret.content.data) }

(***************************************************************************)
(* C11: validation reports an error for every column name used in the      *)
(* columns section (a key of visible, an entry of order, a key of widths,  *)
(* a key of customHeaders) that is not one of the 16 recognized names, and *)
(* accepts a columns section that uses recognized names only, with boolean *)
(* visibility and positive widths.                                         *)
(***************************************************************************)
\* the places of a columns section that name a column that does not exist
UnknownColumnUses(columns) ==
    LET visible == Sub(columns, "visible")
        order   == Sub(columns, "order")
        widths  == Sub(columns, "widths")
        custom  == Sub(columns, "customHeaders")
    IN  { "columns.visible." \o k : k \in (DOMAIN visible) \ ColumnNames }
        \cup { "columns.order[" \o ToString(i - 1) \o "]" :
                  i \in { j \in 1..Len(order) : order[j] \notin ColumnNames } }
        \cup { "columns.widths." \o k : k \in (DOMAIN widths) \ ColumnNames }
        \cup { "columns.customHeaders." \o k : k \in (DOMAIN custom) \ ColumnNames }

\* recognized names only, boolean visibility, positive widths
WellFormedColumns(columns) ==
    /\ UnknownColumnUses(columns) = {}
    /\ \A k \in DOMAIN Sub(columns, "visible") : columns.visible[k] \in BOOLEAN
    /\ \A k \in DOMAIN Sub(columns, "widths") : columns.widths[k] > 0

ColumnsValidated ==
    /\ LoadDone
    /\ FileGiven
    /\ ret.content.kind = "object"
    /\ hasProperty(ret.content.data, "columns")

C11_UnknownColumnsReported ==
    ColumnsValidated =>
        LET columns == ret.content.data.columns
            result  == isValidColumnConfig(columns)
        IN  /\ UnknownColumnUses(columns) \subseteq { e.path : e \in result.errors }
            /\ WellFormedColumns(columns) => result.isValid

(***************************************************************************)
(* C12: validation of a scoring section reports an error when a key of     *)
(* severityWeights is not one of critical, high, moderate, low, info, when *)
(* a weight is negative, or when thresholds.highCvss or                    *)
(* thresholds.mediumCvss lies outside [0,10]; it reports no scoring error  *)
(* when none of these is the case.                                         *)
(***************************************************************************)
\* the fields of a scoring section that break one of the three rules
ScoringViolations(scoring) ==
    LET weights    == Sub(scoring, "severityWeights")
        thresholds == Sub(scoring, "thresholds")
    IN  { "scoring.severityWeights." \o k :
            k \in { w \in DOMAIN weights :
                      \/ w \notin {"critical", "high", "moderate", "low", "info"}
                      \/ weights[w] < 0 } }
        \cup { "scoring.thresholds." \o k :
                  k \in { th \in {"highCvss", "mediumCvss"} \cap DOMAIN thresholds :
                            thresholds[th] < 0 \/ thresholds[th] > 100 } }

ScoringChecked ==
    /\ LoadDone
    /\ FileGiven
    /\ ret.content.kind = "object"
    /\ hasProperty(ret.content.data, "scoring")

OrderedThresholds(thresholds) ==
    /\ thresholds.urgentPriority >= thresholds.highPriority
    /\ thresholds.highPriority >= thresholds.mediumPriority

\* a completed loadConfig whose only sources are the validated ones
ValidatedSourcesOnly ==
    /\ LoadDone
    /\ ~ret.options.hasInline

C13_ThresholdsOrdered ==
    ValidatedSourcesOnly =>
        /\ OrderedThresholds(ret.value.scoring.thresholds)
        /\ (/\ FileGiven
            /\ ret.content.kind = "object"
            /\ ~OrderedThresholds(deepMergeConfig(DEFAULT_CONFIG, ret.content.data).scoring.thresholds))
              => ret.warned /= ""

(***************************************************************************)
(* C14: the file generateSampleConfig writes, loaded again with            *)
(* loadConfig({configFile}), gives a configuration deep-equal to           *)
(* DEFAULT_CONFIG: the same keys at every level with the same values, no   *)
(* $schema, description or version, and no key the default does not have.  *)
(***************************************************************************)
SampleReloaded ==
    /\ LoadDone
    /\ FileGiven
    /\ ret.content = JSONstringify(sampleConfig)
    /\ ~Truthy(ret.options.preset)
    /\ ~ret.options.hasInline

C14_SampleRoundTrip ==
    SampleReloaded =>
        /\ ret.warned = ""
        /\ DOMAIN ret.value = DOMAIN DEFAULT_CONFIG
        /\ \A s \in DOMAIN DEFAULT_CONFIG :
              /\ DOMAIN ret.value[s] = DOMAIN DEFAULT_CONFIG[s]
              /\ ret.value[s] = DEFAULT_CONFIG[s]

(***************************************************************************)
(* C15: getAvailablePresets is pure: in every state of the singleton it    *)
(* returns exactly the registry keys minimal, developer, security and      *)
(* highContrast, and it leaves the current configuration unchanged.        *)
(***************************************************************************)
PresetsListed == ret.op = "getAvailablePresets"

C15_PresetsListedPure ==
    PresetsListed =>
        /\ ~ret.threw
        /\ Len(ret.value) = 4
        /\ { ret.value[i] : i \in 1..Len(ret.value) } =
              {"minimal", "developer", "security", "highContrast"}
        /\ config = ret.before

\* the presets are listed while a preset is applied and a load is suspended
C15_Witness ==
    /\ PresetsListed
    /\ config /= DEFAULT_CONFIG
    /\ pending /= {}
    /\ Len(ret.value) = 4
    /\ config = ret.before

(***************************************************************************)
(* C16: for every raw entry and scoring configuration, priorityScore =     *)
(* severityWeights[severity] + (directDependency bonus if isDirect)        *)
(* + (fixAvailable bonus if a fix exists) + (CVSS bonus)                   *)
(* - (majorVersion penalty if a fix exists and isSemVerMajor)              *)
(* - min(maxEffectsPenalty, effectsCount * effectsPerPackage).  Under the  *)
(* default configuration a critical, direct entry with a non-major fix,    *)
(* CVSS 9.5 and 1 effect scores 73 (URGENT), and a low, indirect entry     *)
(* with no fix, CVSS 0 and 0 effects scores 10 (LOW).                      *)
(***************************************************************************)
Scored == Len(processed) = 1

FixExists(raw) == raw.fixAvailable.kind = "object"

MajorFix(raw) ==
    /\ FixExists(raw)
    /\ "isSemVerMajor" \in DOMAIN raw.fixAvailable
    /\ raw.fixAvailable.isSemVerMajor

\* the CVSS bonus of a record
CvssBonusOf(scoring, cvssScore) ==
    CASE cvssScore >= scoring.thresholds.highCvss -> scoring.bonusPoints.highCvss
      [] cvssScore < scoring.thresholds.highCvss
           /\ cvssScore >= scoring.thresholds.mediumCvss -> scoring.bonusPoints.mediumCvss
      [] OTHER -> 0

\* min(maxEffectsPenalty, effectsCount * effectsPerPackage)
CappedPenalty(scoring, effectsCount) ==
    LET product == effectsCount * scoring.penalties.effectsPerPackage
        cap     == scoring.penalties.maxEffectsPenalty
    IN  IF product < cap THEN product ELSE cap

\* everything of the score but the CVSS bonus and the effects penalty
ScoreCore(scoring, raw) ==
    scoring.severityWeights[raw.severity]
    + (IF raw.isDirect THEN scoring.bonusPoints.directDependency ELSE 0)
    + (IF FixExists(raw) THEN scoring.bonusPoints.fixAvailable ELSE 0)
    - (IF MajorFix(raw) THEN scoring.penalties.majorVersion ELSE 0)

DefaultScoringInUse == ret.value.scoring = DEFAULT_CONFIG.scoring

CriticalScenario ==
    /\ Scored
    /\ DefaultScoringInUse
    /\ entry.severity = "critical"
    /\ entry.isDirect
    /\ entry.fixAvailable = FixInfoMajor("lodash", "4.17.21", FALSE)
    /\ processed[1].cvssScore = 95
    /\ Len(entry.effects) = 1

LowScenario ==
    /\ Scored
    /\ DefaultScoringInUse
    /\ entry.severity = "low"
    /\ ~entry.isDirect
    /\ entry.fixAvailable = FixFalse
    /\ processed[1].cvssScore = 0
    /\ Len(entry.effects) = 0

C16_ScoreFormula ==
    /\ Scored =>
          processed[1].priorityScore =
              ScoreCore(ret.value.scoring, entry)
              + CvssBonusOf(ret.value.scoring, processed[1].cvssScore)
              - CappedPenalty(ret.value.scoring, processed[1].effectsCount)
    /\ CriticalScenario =>
          processed[1].priorityScore = 73 /\ processed[1].priorityCategory = "URGENT"
    /\ LowScenario =>
          processed[1].priorityScore = 10 /\ processed[1].priorityCategory = "LOW"

C16_Witness ==
    /\ CriticalScenario
    /\ processed[1].priorityScore = 40 + 15 + 10 + 10 - 2
    /\ processed[1].fixAvailable
    /\ ~processed[1].isSemVerMajor

(***************************************************************************)
(* C17: a record with cvssScore >= thresholds.highCvss receives exactly    *)
(* bonusPoints.highCvss as its CVSS bonus, a record with                   *)
(* thresholds.mediumCvss <= cvssScore < thresholds.highCvss receives       *)
(* exactly bonusPoints.mediumCvss, and no record receives both.            *)
(***************************************************************************)
\* what the score holds beyond the base, the other bonuses and the penalties
CvssBonusReceived ==
    processed[1].priorityScore
    - ScoreCore(ret.value.scoring, entry)
    + CappedPenalty(ret.value.scoring, processed[1].effectsCount)

C17_CvssBonusExclusive ==
    Scored =>
        LET cvssScore  == processed[1].cvssScore
            thresholds == ret.value.scoring.thresholds
            points     == ret.value.scoring.bonusPoints
        IN  /\ cvssScore >= thresholds.highCvss =>
                  CvssBonusReceived = points.highCvss
            /\ (thresholds.mediumCvss <= cvssScore /\ cvssScore < thresholds.highCvss) =>
                  CvssBonusReceived = points.mediumCvss
            /\ CvssBonusReceived \in {0, points.highCvss, points.mediumCvss}

\* CVSS 8.9 under thresholds 8.0/7.0 and bonuses 20/5: the record gets 20
C17_Witness ==
    /\ Scored
    /\ ret.value.scoring.thresholds.highCvss = 80
    /\ ret.value.scoring.bonusPoints.highCvss = 20
    /\ ret.value.scoring.bonusPoints.mediumCvss = 5
    /\ processed[1].cvssScore = 89
    /\ CvssBonusReceived = 20

(***************************************************************************)
(* C18: the effects penalty subtracted from the score equals               *)
(* min(maxEffectsPenalty, effectsCount * effectsPerPackage); once          *)
(* effectsCount * effectsPerPackage reaches maxEffectsPenalty, a larger    *)
(* effectsCount does not change priorityScore.                             *)
(***************************************************************************)
\* what the score lacks from the base and the bonuses less the major-version penalty
EffectsPenaltySubtracted ==
    ScoreCore(ret.value.scoring, entry)
    + CvssBonusOf(ret.value.scoring, processed[1].cvssScore)
    - processed[1].priorityScore

CapReached ==
    processed[1].effectsCount * ret.value.scoring.penalties.effectsPerPackage
        >= ret.value.scoring.penalties.maxEffectsPenalty

C18_EffectsPenaltyCapped ==
    Scored =>
        /\ EffectsPenaltySubtracted =
              CappedPenalty(ret.value.scoring, processed[1].effectsCount)
        /\ CapReached =>
              /\ EffectsPenaltySubtracted = ret.value.scoring.penalties.maxEffectsPenalty
              /\ \A n \in (processed[1].effectsCount + 1)..MaxEffects :
                    processVulnerability([entry EXCEPT !.effects = Effects(n)],
                                         ret.value.scoring).priorityScore
                        = processed[1].priorityScore

\* 3 effects at 3 points each under a cap of 7: the penalty is 7, as for 4
C18_Witness ==
    /\ Scored
    /\ ret.value.scoring.penalties.effectsPerPackage = 3
    /\ ret.value.scoring.penalties.maxEffectsPenalty = 7
    /\ processed[1].effectsCount = 3
    /\ CapReached
    /\ EffectsPenaltySubtracted = 7

(***************************************************************************)
(* C19: for any fixed scoring configuration and two entries that differ    *)
(* only in severity, raising the severity along low -> moderate -> high -> *)
(* critical never decreases priorityScore.                                 *)
(***************************************************************************)
SeverityRank == [low |-> 1, moderate |-> 2, high |-> 3, critical |-> 4]

\* the score of the entry with its severity replaced
ScoreAt(severity) ==
    processVulnerability([entry EXCEPT !.severity = severity],
                         ret.value.scoring).priorityScore

RankedEntryScored ==
    /\ Scored
    /\ entry.severity \in DOMAIN SeverityRank

NeverDecreasesWhenRaised ==
    \A severity \in DOMAIN SeverityRank :
        SeverityRank[severity] > SeverityRank[entry.severity] =>
            ScoreAt(severity) >= processed[1].priorityScore

C19_SeverityMonotone == RankedEntryScored => NeverDecreasesWhenRaised

(***************************************************************************)
(* C19, amended: for any fixed scoring configuration whose severity        *)
(* weights do not decrease along low -> moderate -> high -> critical, and  *)
(* two entries that differ only in severity, raising the severity along    *)
(* that chain never decreases priorityScore.                               *)
(***************************************************************************)
OrderedWeights(severityWeights) ==
    /\ severityWeights.low <= severityWeights.moderate
    /\ severityWeights.moderate <= severityWeights.high
    /\ severityWeights.high <= severityWeights.critical

C19_SeverityMonotoneOrderedWeights ==
    (RankedEntryScored /\ OrderedWeights(ret.value.scoring.severityWeights)) =>
        NeverDecreasesWhenRaised

\* weights 1/20/30/45: a low entry gains 44 points when it becomes critical
C19_Witness ==
    /\ RankedEntryScored
    /\ OrderedWeights(ret.value.scoring.severityWeights)
    /\ ret.value.scoring.severityWeights.critical = 45
    /\ entry.severity = "low"
    /\ ScoreAt("moderate") = processed[1].priorityScore + 19
    /\ ScoreAt("critical") = processed[1].priorityScore + 44

(***************************************************************************)
(* C20: the category boundaries are inclusive lower bounds taken in        *)
(* descending order, the first match wins: URGENT iff score >=             *)
(* urgentPriority, else HIGH iff score >= highPriority, else MEDIUM iff    *)
(* score >= mediumPriority, else LOW.  Under the default thresholds        *)
(* 50/35/20 a score of 50 is URGENT and 49 is HIGH, 35 is HIGH and 34 is   *)
(* MEDIUM, 20 is MEDIUM and 19 is LOW.                                     *)
(***************************************************************************)
BoundaryCategory ==
    [score \in {50, 49, 35, 34, 20, 19} |->
        CASE score = 50 -> "URGENT"
          [] score \in {49, 35} -> "HIGH"
          [] score \in {34, 20} -> "MEDIUM"
          [] OTHER -> "LOW"]

C20_CategoryBoundaries ==
    Scored =>
        LET score      == processed[1].priorityScore
            category   == processed[1].priorityCategory
            thresholds == ret.value.scoring.thresholds
            urgent     == score >= thresholds.urgentPriority
            high       == score >= thresholds.highPriority
            medium     == score >= thresholds.mediumPriority
        IN  /\ category = "URGENT" <=> urgent
            /\ category = "HIGH" <=> (~urgent /\ high)
            /\ category = "MEDIUM" <=> (~urgent /\ ~high /\ medium)
            /\ category = "LOW" <=> (~urgent /\ ~high /\ ~medium)
            /\ (DefaultScoringInUse /\ score \in DOMAIN BoundaryCategory) =>
                  category = BoundaryCategory[score]

\* under the default thresholds a record scores exactly 35 and is HIGH
C20_Witness ==
    /\ Scored
    /\ DefaultScoringInUse
    /\ ret.value.scoring.thresholds.highPriority = 35
    /\ processed[1].priorityScore = 35
    /\ processed[1].priorityCategory = "HIGH"

(***************************************************************************)
(* C21: priorityCategory is a monotonic bucketing of priorityScore.  For   *)
(* any threshold configuration, descending or not, and any two scores      *)
(* a >= b, the category of a is at least as urgent as the category of b    *)
(* in the order LOW < MEDIUM < HIGH < URGENT.  The scores compared are the *)
(* score of the processed entry and the scores of the entries that differ  *)
(* from it in severity, directness and number of effects.                  *)
(***************************************************************************)
CategoryRank == [LOW |-> 1, MEDIUM |-> 2, HIGH |-> 3, URGENT |-> 4]

\* the records of the entries that differ from the processed one in
\* severity, directness and number of effects, under the same configuration
Neighbours ==
    { processVulnerability([entry EXCEPT !.severity = severity,
                                          !.isDirect = isDirect,
                                          !.effects = Effects(n)],
                           ret.value.scoring) :
        severity \in validSeverities, isDirect \in BOOLEAN, n \in 0..MaxEffects }

NotDescending(thresholds) ==
    \/ thresholds.urgentPriority < thresholds.highPriority
    \/ thresholds.highPriority < thresholds.mediumPriority

C21_CategoryMonotone ==
    Scored =>
        \A other \in Neighbours :
            other.priorityScore >= processed[1].priorityScore =>
                CategoryRank[other.priorityCategory]
                    >= CategoryRank[processed[1].priorityCategory]

\* the thresholds are not descending (10/35/20 or 50/60/55); a record scores at
\* least urgentPriority and below mediumPriority, one neighbour scores more and
\* another, of another category, scores less
C21_Witness ==
    /\ Scored
    /\ NotDescending(ret.value.scoring.thresholds)
    /\ processed[1].priorityScore >= ret.value.scoring.thresholds.urgentPriority
    /\ processed[1].priorityScore < ret.value.scoring.thresholds.mediumPriority
    /\ \E other \in Neighbours : other.priorityScore > processed[1].priorityScore
    /\ \E other \in Neighbours :
          /\ other.priorityScore < processed[1].priorityScore
          /\ other.priorityCategory /= processed[1].priorityCategory

(***************************************************************************)
(* C22: fix-field resolution.  A record built from a raw entry whose       *)
(* fixAvailable is the boolean false has fixAvailable = false,             *)
(* fixVersion = "", fixPackage = "", isSemVerMajor = false and             *)
(* fixCommand = "No fix available".  Hence in every record isSemVerMajor   *)
(* implies fixAvailable, and the score of a record without a fix carries   *)
(* no major-version penalty: it is the base score plus the bonuses for a   *)
(* direct dependency and for the CVSS score, minus the effects penalty.    *)
(***************************************************************************)
NoFixEntry == entry.fixAvailable.kind = "boolean" /\ entry.fixAvailable.value = FALSE

ScoreWithoutFix(scoring, raw, record) ==
    scoring.severityWeights[raw.severity]
    + (IF raw.isDirect THEN scoring.bonusPoints.directDependency ELSE 0)
    + CvssBonusOf(scoring, record.cvssScore)
    - CappedPenalty(scoring, Len(raw.effects))

C22_FixFieldsResolved ==
    Scored =>
        /\ NoFixEntry =>
              /\ processed[1].fixAvailable = FALSE
              /\ processed[1].fixVersion = ""
              /\ processed[1].fixPackage = ""
              /\ processed[1].isSemVerMajor = FALSE
              /\ processed[1].fixCommand = "No fix available"
        /\ processed[1].isSemVerMajor => processed[1].fixAvailable
        /\ ~processed[1].fixAvailable =>
              processed[1].priorityScore
                  = ScoreWithoutFix(ret.value.scoring, entry, processed[1])

\* an entry without a fix is processed under a major-version penalty of 5
C22_Witness ==
    /\ Scored
    /\ NoFixEntry
    /\ ret.value.scoring.penalties.majorVersion = 5
    /\ processed[1].fixCommand = NO_FIX
    /\ ~processed[1].fixAvailable

(***************************************************************************)
(* C23: loadConfig has a single suspend point, the file read.  The step    *)
(* that suspends it neither reads nor writes the singleton's               *)
(* configuration, and the step that completes it writes the configuration  *)
(* once, with the value loadConfig run alone and without interruption      *)
(* gives for the same options and the file content read, which is also the *)
(* value it returns.  Every interleaving of loadConfig calls with          *)
(* applyPreset, updateConfig and resetToDefault is therefore the serial    *)
(* execution in which each loadConfig runs where it completes.             *)
(***************************************************************************)
Suspends == \E call \in pending' : call \notin pending

Completes(call) == call \in pending /\ pending' = pending \ {call}

C23_LoadConfigSerializable ==
    [][ /\ Suspends =>
              /\ config' = config
              /\ \A call \in pending' \ pending :
                    call.local = loadConfigBeforeRead(DEFAULT_CONFIG, call.options)
        /\ \A call \in pending :
              Completes(call) =>
                  /\ config' = loadConfig(config, call.options, fs)
                  /\ config' = loadConfig(DEFAULT_CONFIG, call.options, fs)
                  /\ ret'.op = "loadConfig"
                  /\ ret'.value = config'
        /\ (config' /= config /\ pending' = pending) =>
              ret'.op \in {"loadConfig", "applyPreset", "updateConfig", "resetToDefault"}
      ]_vars

\* a loadConfig that read the file has completed on a singleton whose
\* configuration another call had changed, while a second one is suspended
C23_Witness ==
    /\ ret.op = "loadConfig"
    /\ Truthy(ret.options.configFile)
    /\ ret.before /= DEFAULT_CONFIG
    /\ ret.before /= ret.value
    /\ config = ret.value
    /\ pending /= {}

(***************************************************************************)
(* C25: applyPreset with a known preset, on any current configuration,     *)
(* gives the preset's value to every field the preset mentions and leaves  *)
(* every field the preset does not mention (columns.customHeaders, the     *)
(* colors section under the minimal preset) at the value it had.           *)
(***************************************************************************)
PresetApplied == ret.op = "applyPreset" /\ ~ret.threw

\* after holds the leaves of layer with the values of layer, and every other
\* leaf of before with the value it had in before
LaidOver(before, layer, after) ==
    /\ \A p \in LeafPaths(layer) :
          Mentions(after, p) /\ ValueAt(after, p) = ValueAt(layer, p)
    /\ \A p \in LeafPaths(before) \ LeafPaths(layer) :
          Mentions(after, p) /\ ValueAt(after, p) = ValueAt(before, p)

C25_ApplyPresetKeepsOtherFields ==
    PresetApplied => LaidOver(ret.before, PRESET_CONFIGS[ret.options.preset], config)

(***************************************************************************)
(* C26: updateConfig(updates) is a per-key deep merge onto the current     *)
(* configuration: every field updates mentions takes the value of updates, *)
(* and every other field, the keys of a nested record that updates does    *)
(* not mention and the column order included, keeps its current value.     *)
(***************************************************************************)
ConfigUpdated == ret.op = "updateConfig" /\ ~ret.threw

C26_UpdateConfigPerKey ==
    ConfigUpdated => LaidOver(ret.before, ret.options.inlineConfig, config)

ReportWritten == DOMAIN report /= {}

Raised ==
    /\ ret.threw
    /\ ret.op \in {"loadConfig", "getAuditData", "processAuditReport", "generateReport"}

\* the report is the one generated from the processed entry of the audit
\* data under the configuration loadConfig returned
ReportAfterAllSteps ==
    ReportWritten =>
        /\ LoadDone /\ ~ret.threw
        /\ DOMAIN entry /= {}
        /\ processed = <<processVulnerability(entry, ret.value.scoring)>>
        /\ report = generateReport(ret.value, processed)

ExitCodeTellsFailure ==
    exit.exited =>
        /\ exit.code = 1 <=> Raised
        /\ exit.code = 0 <=> ReportWritten

StepsInOrder ==
    /\ entry' /= entry => LoadDone /\ processed = <<>> /\ ~ReportWritten
    /\ processed' /= processed => LoadDone /\ DOMAIN entry /= {} /\ ~ReportWritten
    /\ report' /= report => Len(processed) = 1 /\ ~Raised
    /\ Raised => Raised' /\ report' = report /\ processed' = processed /\ entry' = entry

C24_AbortsOnFirstError ==
    /\ [](ReportAfterAllSteps /\ (Raised => ~ReportWritten) /\ ExitCodeTellsFailure)
    /\ [][StepsInOrder]_vars
    /\ (Raised ~> (exit.exited /\ exit.code = 1))

\* the processor has failed on the entry that lacks via, effects and
\* fixAvailable; the process has exited with code 1 and no report exists
C24_Witness ==
    /\ ret.threw
    /\ ret.op = "processAuditReport"
    /\ ~WellFormed(entry)
    /\ processed = <<>>
    /\ ~ReportWritten
    /\ exit = [exited |-> TRUE, code |-> 1]

(***************************************************************************)
(* C28: in every configuration loadConfig returns from validated sources   *)
(* each column whose visible flag is true appears in columns.order, so it  *)
(* is rendered: the header row and every data row of the report hold       *)
(* exactly the visible columns, each once, and the i-th cell of a data row *)
(* holds the value of the column of the i-th header.                       *)
(***************************************************************************)
VisibleColumns(cfg) == { c \in DOMAIN cfg.columns.visible : cfg.columns.visible[c] }

OrderedColumns(cfg) == { cfg.columns.order[i] : i \in 1..Len(cfg.columns.order) }

HeaderCell(cfg, column) == Str(headerOf(cfg, column))

RowsAligned ==
    LET header  == report.rows[report.headerRow]
        columns == VisibleColumns(ret.value)
        values  == createDataMapping(ret.value, processed[1])
    IN  /\ Len(header) = Cardinality(columns)
        /\ \A c \in columns :
              Cardinality({ i \in 1..Len(header) : header[i] = HeaderCell(ret.value, c) }) = 1
        /\ \A r \in (report.headerRow + 1)..Len(report.rows) :
              /\ Len(report.rows[r]) = Len(header)
              /\ \A i \in 1..Len(header) : \A c \in columns :
                    header[i] = HeaderCell(ret.value, c) => report.rows[r][i] = values[c]

C28_VisibleColumnsRendered ==
    /\ (LoadDone /\ ~ret.threw) => VisibleColumns(ret.value) \subseteq OrderedColumns(ret.value)
    /\ ReportWritten => RowsAligned

(***************************************************************************)
(* C29: the column options of the command line override only the          *)
(* visibility of the columns.  When --show-columns or --hide-columns comes *)
(* with a preset or a configuration file, the column order and the widths  *)
(* are the ones the preset and the file give without the option, and with  *)
(* --hide-columns the columns the preset or the file hides stay hidden.    *)
(***************************************************************************)
ColumnOptionGiven == Truthy(cli.showColumns) \/ Truthy(cli.hideColumns)

\* what loadConfig returns for the same run without the column options
WithoutColumnOptions ==
    loadConfig(DEFAULT_CONFIG,
               MainOptions([cli EXCEPT !.showColumns = "", !.hideColumns = ""]),
               ret.content)

C29_ColumnOptionsOnlyVisibility ==
    (LoadDone /\ ~ret.threw /\ ColumnOptionGiven) =>
        /\ ret.value.columns.order = WithoutColumnOptions.columns.order
        /\ ret.value.columns.widths = WithoutColumnOptions.columns.widths
        /\ Truthy(cli.hideColumns) =>
              \A c \in ColumnNames :
                  ~WithoutColumnOptions.columns.visible[c] => ~ret.value.columns.visible[c]

(***************************************************************************)
(* C30: for the four combinations of output.includeTitle and               *)
(* output.includeSummary the row number getHeaderRowNumber gives to the    *)
(* auto filter and to the freeze pane is the number of the worksheet row   *)
(* in which addHeaders put the headers.                                    *)
(***************************************************************************)
C30_HeaderRowNumber ==
    ReportWritten =>
        /\ report.rows[report.headerRow] = headers(ret.value)
        /\ getHeaderRowNumber(ret.value) = report.headerRow
        /\ report.views[1].ySplit = report.headerRow
        /\ report.autoFilter.applied => report.autoFilter.row = report.headerRow
====
